---- MODULE Spec2Model ----
(***************************************************************************)
(* A model of the automotive crate's core: the async frame dispatcher      *)
(* (src/can/async_can.rs), the ISO-TP adapter (src/isotp/mod.rs), the UDS  *)
(* client (src/uds/mod.rs), and the SocketCan adapter underneath.          *)
(*                                                                         *)
(* Each layer has its own specification over the shared variables:         *)
(*   Spec      the dispatcher thread, the send futures and the adapter     *)
(*   SpecLive  Spec with the scheduling fairness of the thread and tasks   *)
(*   SpecIso   IsoTPAdapter::send and recv against an echoing peer; here   *)
(*             AsyncCanAdapter::send is a step that puts the frame on the  *)
(*             bus, and the streams hold the frames the dispatcher has     *)
(*             published for them                                          *)
(*   SpecIsoLive SpecIso's steps, fair, on the transfers that time out     *)
(*   SpecUds   UDSClient::request over SpecIso's steps against an ECU      *)
(*   SpecMux   SpecUds while a second request runs on other identifiers    *)
(*   SpecFault the dispatcher with an adapter whose calls may fail, a      *)
(*             subscriber of the broadcast channel, and the owner's drop   *)
(*   SpecBus   SpecIsoLive's transfers while another bus carries a frame   *)
(*             with their receive identifier                               *)
(*   SpecSock  the SocketCan adapter (src/socketcan/mod.rs) under a caller *)
(*             that sends frames and reads them back                       *)
(*   SpecNew   one call of Frame::new (src/can/mod.rs)                     *)
(*   SpecCfg   IsoTPConfig::tx for a range of transmit identifiers         *)
(*   SpecPend  SpecUds with an ECU that sends ResponsePending without end, *)
(*             under fair scheduling                                       *)
(***************************************************************************)
EXTENDS Integers, Sequences, FiniteSets, TLC

(***************************************************************************)
(* Bounds of the model.                                                    *)
(***************************************************************************)
\* Number of send futures the tasks create (bulk_send creates 0x1000).
NumSends == 3
\* Capacity of the transmit channel, standing for CAN_TX_BUFFER_SIZE = 128
\* (async_can.rs:13), scaled down so that senders do exceed it.
TxCapacity == 2
\* Largest number of frames one adapter.recv() call returns.
MaxBatch == 2
\* Number of frames other nodes put on the bus.
MaxBusFrames == 1

(***************************************************************************)
(* Frames and identifiers (src/can/mod.rs).                                *)
(***************************************************************************)
Standard(n) == <<"Standard", n>>
Extended(n) == <<"Extended", n>>

\* Frame { bus, id, data, loopback, fd }
MkFrame(bus, id, data, loopback, fd) ==
    [bus |-> bus, id |-> id, data |-> data, loopback |-> loopback, fd |-> fd]

\* #[derive(PartialEq)] on Frame: field by field, every field.
FrameEq(a, b) ==
    /\ a.bus = b.bus
    /\ a.id = b.id
    /\ a.data = b.data
    /\ a.loopback = b.loopback
    /\ a.fd = b.fd

\* type BusIdentifier = (u8, Identifier)
KeyOf(f) == <<f.bus, f.id>>

\* The identifiers the senders use (those of get_test_frames).
SendIds == {Standard(291), Extended(4660)}
Keys == {<<0, i>> : i \in SendIds}
Sends == 1..NumSends

\* The frame send future s transmits: payload s, as bulk_send's i.to_be_bytes().
SendFrame(s, id) == MkFrame(0, id, <<s>>, FALSE, FALSE)
\* A frame another node transmits.
BusFrame == MkFrame(0, Standard(1961), <<62, 0>>, FALSE, FALSE)

VARIABLES
    dpc,        \* where the dispatch loop of process() is
    frames,     \* process(): the frames of the adapter.recv() being handled
    callbacks,  \* process(): HashMap<BusIdentifier, VecDeque<FrameCallback>>
    buffer,     \* process(): the frames to hand to adapter.send()
    txchan,     \* the mpsc channel of (Frame, oneshot::Sender)
    txwait,     \* send futures waiting for a slot of the mpsc channel, in order
    hw,         \* adapter: per (bus, id), frames handed to send() and not yet echoed
    busLeft,    \* frames other nodes will still transmit
    env,        \* "fifo": the adapter keeps per-(bus, id) order; "reorder": it does not
    fut,        \* state of each send future
    futFrame,   \* the frame each send future was created for
    published,  \* every frame sent to the broadcast channel, in order
    issued,     \* history: the send futures in the order send() was called
    resolved,   \* history: the send futures in the order they completed
    matched     \* history: (send future, echo frame) for every fired callback

\* The adapter's faults, the owner's drop and a subscriber of the broadcast channel
VARIABLES
    shut,       \* the one-shot shutdown signal has been sent
    dropst,     \* where Drop for AsyncCanAdapter is
    afault,     \* history: the call of the adapter that returned Err, if any
    unsent,     \* history: the frames adapter.send() left untransmitted
    returned,   \* history: the frames adapter.recv() returned, in order
    sub         \* a stream of recv_filter(): its cursor and what it has yielded

fvars == <<shut, dropst, afault, unsent, returned, sub>>

dvars == <<dpc, frames, callbacks, buffer, txchan, txwait, hw, busLeft, env,
           fut, futFrame, published, issued, resolved, matched, fvars>>

VARIABLES
    build,      \* "debug": integer overflow panics; "release": it wraps
    cfg,        \* IsoTPConfig: bus_, tx_, rx_, padding_, separation_time_min_, fd_, ext_address_, max_dlen_
    txData,     \* the datagram handed to IsoTPAdapter::send
    spc,        \* where IsoTPAdapter::send is
    sres,       \* its result, once it returned
    sidx,       \* send_multiple: the index of the next chunk
    sfc,        \* send_multiple: fc_config
    sstmin,     \* send_multiple: st_min
    swait,      \* receive_flow_control: iterations of its loop that are over
    fcStream,   \* send_multiple: frames waiting in its receive stream
    wire,       \* the frames handed to AsyncCanAdapter::send, in order
    rxOpen,     \* recv(): its broadcast receiver exists
    rxStream,   \* recv(): frames waiting in its receive stream
    rbuf,       \* recv_from_stream: buf
    rlen,       \* recv_from_stream: len
    ridx,       \* recv_from_stream: idx
    rres,       \* the items the recv() stream has yielded
    rpolls,     \* how many items the application pulls from the recv() stream
    rarmed,     \* recv(): the Timeout of its stream polls its deadline
    peer,       \* the remote ISO-TP endpoint
    peerCfg,    \* its block size, STmin, number of Wait frames and responses
    sinceFc,    \* history: Consecutive Frames sent since the last Flow Control was received
    sleeps,     \* history: the delays slept between Consecutive Frames
    rxPub,      \* history: the frames for recv() published since its stream was created
    rxTaken     \* history: the frames recv_from_stream has taken from the stream

ivars == <<cfg, build, rxOpen, txData, spc, sres, sidx, sfc, sstmin, swait, fcStream, wire,
           rxStream, rbuf, rlen, ridx, rres, rpolls, rarmed, peer, peerCfg, sinceFc,
           sleeps, rxPub, rxTaken>>

\* The UDS client
VARIABLES
    upc,        \* where UDSClient::request is
    ureq,       \* its arguments: sid, sub_function, data
    ures        \* its result, once it returned

uvars == <<upc, ureq, ures>>

VARIABLES
    made,           \* the caller's last Frame::new: its arguments and what it returned
    to_send,        \* bulk_send_sync: the VecDeque it hands to SocketCan::send
    iff_echo,       \* SocketCan.iff_echo
    loopback_queue, \* SocketCan.loopback_queue
    written,        \* history: the frames socket.write_frame took, in order
    sockrx,         \* the frames the socket holds for read_frame
    received        \* history: what each SocketCan::recv returned

svars == <<made, to_send, iff_echo, loopback_queue, written, sockrx, received>>

vars == <<dvars, ivars, uvars, svars>>

(***************************************************************************)
(* Sequence helpers.                                                       *)
(***************************************************************************)
RemoveAt(q, i) == [j \in 1..(Len(q) - 1) |-> IF j < i THEN q[j] ELSE q[j + 1]]

SelectIdx(q, Test(_)) == {i \in 1..Len(q) : Test(q[i])}

IsPrefix(p, q) == Len(p) <= Len(q) /\ \A i \in 1..Len(p) : p[i] = q[i]

(***************************************************************************)
(* The blocking adapter (trait CanAdapter, src/can/mod.rs:115-119).        *)
(***************************************************************************)
\* The positions of a per-(bus, id) queue whose frame recv() may return next.
EchoChoices(q) == IF env = "fifo" THEN {1} ELSE 1..Len(q)

\* adapter.recv(): every batch of at most n frames the adapter may return from
\* the in-flight frames h and b frames of other nodes, with what remains.
RECURSIVE RecvBatches(_, _, _)
RecvBatches(h, b, n) ==
    {[out |-> <<>>, hw |-> h, bus |-> b]} \cup
    (IF n = 0 THEN {} ELSE
       UNION {
         UNION { { [r EXCEPT !.out = <<[h[k][i] EXCEPT !.loopback = TRUE]>> \o r.out]
                   : r \in RecvBatches([h EXCEPT ![k] = RemoveAt(h[k], i)], b, n - 1) }
                 : i \in IF h[k] = <<>> THEN {} ELSE EchoChoices(h[k]) }
         : k \in Keys }
       \cup
       (IF b = 0 THEN {} ELSE
          { [r EXCEPT !.out = <<BusFrame>> \o r.out] : r \in RecvBatches(h, b - 1, n - 1) }))

\* adapter.send(&buffer): the frames are in flight, in order, per (bus, id).
RECURSIVE AdapterSend(_, _)
AdapterSend(h, buf) ==
    IF buf = <<>> THEN h
    ELSE AdapterSend([h EXCEPT ![KeyOf(Head(buf))] = Append(@, Head(buf))], Tail(buf))

(***************************************************************************)
(* The dispatch loop: process() of src/can/async_can.rs.                   *)
(***************************************************************************)
\* callbacks.entry(key).or_insert_with(VecDeque::new).pop_front(): the position taken.
PopBackIndex(q) == Len(q)
PopIndex(q) == 1

\* assert_eq!(tx_frame, frame)
NoCallbackCheck(tx_frame, frame) == TRUE
CallbackMatches(tx_frame, frame) == FrameEq(tx_frame, frame)

\* A panic of the dispatcher thread: its locals (the registry with the oneshot
\* senders, the receiving half of the mpsc channel) are dropped.
Panicked ==
    /\ dpc' = "dead"
    /\ frames' = <<>>
    /\ buffer' = <<>>
    /\ callbacks' = [k \in Keys |-> <<>>]
    /\ txchan' = <<>>

\* while shutdown_receiver.try_recv().is_err() (line 29) finds no signal;
\* let frames = adapter.recv().unwrap();   (line 30)
DispRecv ==
    /\ dpc = "recv"
    /\ ~shut
    /\ \E r \in RecvBatches(hw, busLeft, MaxBatch) :
         /\ frames' = r.out
         /\ hw' = r.hw
         /\ busLeft' = r.bus
    /\ dpc' = "rxloop"
    /\ UNCHANGED <<callbacks, buffer, txchan, txwait, env, fut, futFrame,
                   published, issued, resolved, matched>>

\* One iteration of `for frame in frames` (lines 31-55).
ProcessFrame ==
    /\ dpc = "rxloop"
    /\ frames # <<>>
    /\ LET frame == Head(frames)
           key == KeyOf(frame)
       IN IF ~frame.loopback
          THEN \* rx_sender.send(frame).unwrap()
               /\ published' = Append(published, frame)
               /\ frames' = Tail(frames)
               /\ UNCHANGED <<dpc, callbacks, buffer, txchan, fut, resolved, matched>>
          ELSE IF callbacks[key] = <<>>
          THEN \* None => panic!("Received loopback frame with no pending callback")
               /\ Panicked
               /\ UNCHANGED <<fut, published, resolved, matched>>
          ELSE LET i == PopIndex(callbacks[key])
                   cb == callbacks[key][i]
               IN IF ~CallbackMatches(cb.frame, frame)
                  THEN \* assert_eq!(tx_frame, frame) fails
                       /\ Panicked
                       /\ UNCHANGED <<fut, published, resolved, matched>>
                  ELSE IF fut[cb.sid] = "dropped"
                  THEN \* callback.send(()) is Err: the receiver is gone; unwrap() panics
                       /\ Panicked
                       /\ matched' = Append(matched, [sid |-> cb.sid, echo |-> frame])
                       /\ UNCHANGED <<fut, published, resolved>>
                  ELSE /\ callbacks' = [callbacks EXCEPT ![key] = RemoveAt(@, i)]
                       /\ fut' = [fut EXCEPT ![cb.sid] = "done"]
                       /\ resolved' = Append(resolved, cb.sid)
                       /\ matched' = Append(matched, [sid |-> cb.sid, echo |-> frame])
                       /\ published' = Append(published, frame)
                       /\ frames' = Tail(frames)
                       /\ UNCHANGED <<dpc, buffer, txchan>>
    /\ UNCHANGED <<txwait, hw, busLeft, env, futFrame, issued>>

\* The for loop is over: buffer.clear() (line 58).
RxDone ==
    /\ dpc = "rxloop"
    /\ frames = <<>>
    /\ dpc' = "drain"
    /\ buffer' = <<>>
    /\ UNCHANGED <<frames, callbacks, txchan, txwait, hw, busLeft, env, fut, futFrame,
                   published, issued, resolved, matched>>

\* tx_receiver.try_recv(): the position of the request it takes (the oldest).
TryRecvNewest(ch) == Len(ch)
TryRecvIndex(ch) == 1

\* let mut loopback_frame = frame.clone(); loopback_frame.loopback = true;
\* (lines 60-61; SubmittedFrame: the clone as it is).
SubmittedFrame(frame) == frame
LoopbackFrame(frame) == [frame EXCEPT !.loopback = TRUE]

\* One iteration of `while let Ok((frame, callback)) = tx_receiver.try_recv()`
\* (lines 59-74).
DrainOne ==
    /\ dpc = "drain"
    /\ txchan # <<>>
    /\ LET item == txchan[TryRecvIndex(txchan)]
           loopback_frame == LoopbackFrame(item.frame)
       IN /\ callbacks' = [callbacks EXCEPT ![KeyOf(item.frame)] =
                              Append(@, [frame |-> loopback_frame, sid |-> item.sid])]
          /\ buffer' = Append(buffer, item.frame)
    /\ txchan' = RemoveAt(txchan, TryRecvIndex(txchan))
    /\ UNCHANGED <<dpc, frames, txwait, hw, busLeft, env, fut, futFrame,
                   published, issued, resolved, matched>>

\* try_recv() finds the channel empty; adapter.send(&buffer).unwrap() when the
\* buffer is not empty; sleep; back to the loop condition (lines 75-79).
DispSend ==
    /\ dpc = "drain"
    /\ txchan = <<>>
    /\ hw' = AdapterSend(hw, buffer)
    /\ dpc' = "recv"
    /\ UNCHANGED <<frames, callbacks, buffer, txchan, txwait, busLeft, env, fut,
                   futFrame, published, issued, resolved, matched>>

(***************************************************************************)
(* AsyncCanAdapter::send (lines 110-120) and the tasks that own its future.*)
(***************************************************************************)
\* send() is called and polled: send_sender.send(..).await takes a slot of the
\* channel at once when one is free and nobody waits, else waits in line
\* (the channel hands out slots in request order); on a closed channel it
\* returns Err and unwrap() panics.
SendCall ==
    /\ Len(issued) < NumSends
    /\ LET s == Len(issued) + 1 IN
       \E id \in SendIds :
         /\ futFrame' = [futFrame EXCEPT ![s] = SendFrame(s, id)]
         /\ issued' = Append(issued, s)
         /\ IF dpc = "dead"
            THEN /\ fut' = [fut EXCEPT ![s] = "failed"]
                 /\ UNCHANGED <<txchan, txwait>>
            ELSE IF txwait = <<>> /\ Len(txchan) < TxCapacity
            THEN /\ txchan' = Append(txchan, [frame |-> SendFrame(s, id), sid |-> s])
                 /\ fut' = [fut EXCEPT ![s] = "waiting"]
                 /\ UNCHANGED txwait
            ELSE /\ txwait' = Append(txwait, s)
                 /\ fut' = [fut EXCEPT ![s] = "queuing"]
                 /\ UNCHANGED txchan
    /\ UNCHANGED <<dpc, frames, callbacks, buffer, hw, busLeft, env,
                   published, resolved, matched>>

\* The first waiter gets the slot that try_recv() freed and queues its request.
Enqueue ==
    /\ dpc # "dead"
    /\ txwait # <<>>
    /\ Len(txchan) < TxCapacity
    /\ LET s == Head(txwait) IN
         /\ txchan' = Append(txchan, [frame |-> futFrame[s], sid |-> s])
         /\ fut' = [fut EXCEPT ![s] = "waiting"]
    /\ txwait' = Tail(txwait)
    /\ UNCHANGED <<dpc, frames, callbacks, buffer, hw, busLeft, env, futFrame,
                   published, issued, resolved, matched>>

\* The owner drops the future at one of its two suspension points.
DropSend(s) ==
    /\ fut[s] \in {"queuing", "waiting"}
    /\ fut' = [fut EXCEPT ![s] = "dropped"]
    /\ txwait' = SelectSeq(txwait, LAMBDA x : x # s)
    /\ UNCHANGED <<dpc, frames, callbacks, buffer, txchan, hw, busLeft, env, futFrame,
                   published, issued, resolved, matched>>

\* The dispatcher thread is gone: the channel is closed (send(..).await is Err)
\* and the oneshot sender is dropped (callback_receiver.await is Err); unwrap()
\* panics in the task.
SendFail(s) ==
    /\ dpc = "dead"
    /\ fut[s] \in {"queuing", "waiting"}
    /\ fut' = [fut EXCEPT ![s] = "failed"]
    /\ txwait' = SelectSeq(txwait, LAMBDA x : x # s)
    /\ UNCHANGED <<dpc, frames, callbacks, buffer, txchan, hw, busLeft, env, futFrame,
                   published, issued, resolved, matched>>

(***************************************************************************)
(* ISO-TP (src/isotp/mod.rs): constants, configuration, framing.           *)
(***************************************************************************)
DEFAULT_PADDING_BYTE == 170
MAX_WAIT_FC == 10
CAN_MAX_DLEN == 8
CAN_FD_MAX_DLEN == 64
ISO_TP_MAX_DLEN == 4095
DLC_TO_LEN == <<0, 1, 2, 3, 4, 5, 6, 7, 8, 12, 16, 20, 24, 32, 48, 64>>
DlcLens == {DLC_TO_LEN[i] : i \in 1..Len(DLC_TO_LEN)}

\* Option<T>: None, Some(v)
None == <<>>
Some(v) == <<v>>
IsSome(o) == o # <<>>
Unwrap(o) == o[1]

\* Result<T>: Ok(v), Err(e)
Ok(v) == [ok |-> TRUE, val |-> v, err |-> ""]
Err(e) == [ok |-> FALSE, val |-> <<>>, err |-> e]
\* A panic of the task (an index out of range, an unwrap of None)
Panic == Err("panic")

\* FrameType (src/isotp/constants.rs) and FRAME_TYPE_MASK
FT_Single == 0
FT_First == 16
FT_Consecutive == 32
FT_FlowControl == 48
TypeNibble(b) == (b \div 16) * 16

Repeat(b, n) == [i \in 1..n |-> b]
Min(a, b) == IF a < b THEN a ELSE b
\* data[from..]: the bytes after the first `from` (a panic when from > len)
From(q, from) == SubSeq(q, from + 1, Len(q))

\* fn offset(&self)
Offset == IF IsSome(cfg.ext_address) THEN 1 ELSE 0
\* fn can_max_dlen(&self)
CanMaxDlen == CAN_MAX_DLEN - Offset
\* fn can_fd_max_dlen(&self)
CanFdMaxDlen == CAN_FD_MAX_DLEN - Offset
\* fn max_can_data_length(&self)
MaxCanDataLength ==
    IF IsSome(cfg.max_dlen) THEN Unwrap(cfg.max_dlen) - Offset
    ELSE IF cfg.fd THEN CanFdMaxDlen ELSE CanMaxDlen
\* send, line 402: data.len() <= self.max_isotp_data_length().  In CAN-FD
\* mode the limit is ISO_TP_FD_MAX_DLEN = u32::MAX, which no length of the
\* model reaches (and no integer of the model checker).
\* (AnyLength: no limit in either mode.)
AnyLength(data) == TRUE
WithinMaxIsoTpDataLength(data) == cfg.fd \/ Len(data) <= ISO_TP_MAX_DLEN

\* fn pad(&self, data), lines 162-182: the bytes after the optional padding
\* to 8 bytes (Unpadded: the bytes as they are) ...
Unpadded(data) == data
PadShort(data) ==
    IF IsSome(cfg.padding) /\ Len(data) + Offset < CAN_MAX_DLEN
    THEN data \o Repeat(Unwrap(cfg.padding), CAN_MAX_DLEN - (Len(data) + Offset))
    ELSE data
\* ... whether .position(|&x| x > data.len()).unwrap() panics (no DLC length is
\* larger) ...
PadPanics(data) ==
    /\ Len(data) + Offset \notin DlcLens
    /\ \A i \in 1..Len(DLC_TO_LEN) : DLC_TO_LEN[i] <= Len(PadShort(data))
\* ... and the padded payload.
Pad(data) ==
    LET len == Len(data) + Offset
        d1 == PadShort(data)
        idx == CHOOSE i \in 1..Len(DLC_TO_LEN) :
                  /\ DLC_TO_LEN[i] > Len(d1)
                  /\ \A j \in 1..(i - 1) : DLC_TO_LEN[j] <= Len(d1)
        padding == IF IsSome(cfg.padding) THEN Unwrap(cfg.padding)
                   ELSE DEFAULT_PADDING_BYTE
    IN IF len \in DlcLens THEN d1
       ELSE d1 \o Repeat(padding, DLC_TO_LEN[idx] - len)

\* fn frame(&self, data): Ok(Frame) on the transmit identifier, or MalformedFrame.
IsoFrame(data) ==
    LET d == IF IsSome(cfg.ext_address) THEN <<Unwrap(cfg.ext_address)>> \o data ELSE data
    IN IF Len(d) \notin DlcLens THEN Err("MalformedFrame")
       ELSE Ok(MkFrame(cfg.bus, cfg.tx, d, FALSE, cfg.fd))

\* send_single_frame: the payload before padding (lines 248-258;
\* ShortFormBuf: without the escape sequence).
ShortFormBuf(data) == <<FT_Single + Len(data)>> \o data
SingleFrameBuf(data) ==
    IF Len(data) < CanMaxDlen
    THEN <<FT_Single + Len(data)>> \o data
    ELSE <<FT_Single, Len(data) % 256>> \o data

\* send_first_frame: the header (lines 269-279).
FirstFrameHeader(data) ==
    IF Len(data) <= ISO_TP_MAX_DLEN
    THEN <<FT_First + ((Len(data) \div 256) % 16), Len(data) % 256>>
    ELSE <<FT_First, 0,
           (Len(data) \div 16777216) % 256, (Len(data) \div 65536) % 256,
           (Len(data) \div 256) % 256, Len(data) % 256>>

\* send_first_frame: header and the first bytes of the datagram (lines 280-281).
FirstFrameBuf(data) ==
    LET h == FirstFrameHeader(data)
    IN h \o SubSeq(data, 1, MaxCanDataLength - Len(h))

\* send_consecutive_frame: the payload before padding (lines 291-294;
\* UnnumberedBuf: without the sequence number).
UnnumberedBuf(chunk, idx) == <<FT_Consecutive>> \o chunk
ConsecutiveBuf(chunk, idx) == <<FT_Consecutive + ((idx + 1) % 16)>> \o chunk

\* send_multiple: data[tx_dl - offset..].chunks(tx_dl - 1) (lines 371-372),
\* offset being the length of the First Frame header.
CfRest(data) == From(data, MaxCanDataLength - Len(FirstFrameHeader(data)))
NumChunks(data) ==
    (Len(CfRest(data)) + (MaxCanDataLength - 2)) \div (MaxCanDataLength - 1)
Chunk(data, idx) ==
    LET r == CfRest(data)
        n == MaxCanDataLength - 1
    IN SubSeq(r, idx * n + 1, Min((idx + 1) * n, Len(r)))

\* send: fits_in_single_frame (lines 398-399)
FitsInSingleFrame(data) ==
    Len(data) < CanMaxDlen \/ Len(data) < MaxCanDataLength - 1

(***************************************************************************)
(* The receive streams of the ISO-TP adapter.                              *)
(***************************************************************************)
\* The filter of recv_filter in send_multiple (lines 348-358) and recv
\* (lines 555-565).
\* (IgnoresId: a filter without the comparison of the identifier.)
IgnoresId(frame) == ~frame.loopback
StreamFilter(frame) ==
    IF frame.id # cfg.rx \/ frame.loopback THEN FALSE
    ELSE IF IsSome(cfg.ext_address)
    THEN frame.data # <<>> /\ frame.data[1] = Unwrap(cfg.ext_address)
    ELSE TRUE

\* The stream of send_multiple exists from its first line to its return.
FcStreamOpen == spc \in {"wait_fc0", "wait_fc", "send_cf"}

\* The dispatcher publishes the frames fs: each open stream receives those
\* its filter lets through.
Deliver(fs) ==
    /\ fcStream' = IF FcStreamOpen THEN fcStream \o SelectSeq(fs, StreamFilter) ELSE fcStream
    /\ rxStream' = IF rxOpen THEN rxStream \o SelectSeq(fs, StreamFilter) ELSE rxStream
    /\ rxPub' = rxPub \o SelectSeq(fs, StreamFilter)

(***************************************************************************)
(* IsoTPAdapter::send (lines 247-410).                                     *)
(***************************************************************************)
\* FlowStatus of a Flow Control frame: data[0] & FLOW_SATUS_MASK
FS_ContinueToSend == 0
FS_Wait == 1
FS_Overflow == 2
FlowStatusOf(b) == b % 16

\* FlowControlConfig::try_from (src/isotp/types.rs:9-30); the separation time
\* in microseconds.
FlowControlConfig(data) ==
    IF Len(data) < 3 THEN Err("MalformedFrame")
    ELSE IF data[3] <= 127
    THEN Ok([block_size |-> data[2], separation_time_min |-> data[3] * 1000])
    ELSE IF data[3] >= 241 /\ data[3] <= 249
    THEN Ok([block_size |-> data[2], separation_time_min |-> (data[3] - 240) * 100])
    ELSE Err("MalformedFrame")

\* send_multiple, line 378: whether to wait for a Flow Control after the
\* Consecutive Frame of chunk idx.
WaitAfterChunk(block_size, idx) ==
    block_size # 0 /\ idx > 0 /\ idx % block_size = 0

\* IsoTPAdapter::send returns.
SendReturns(r) ==
    /\ sres' = <<r>>
    /\ spc' = "done"
    /\ fcStream' = <<>>

\* send (lines 394-410) up to its first suspension: a Single Frame, or the
\* stream and the First Frame of send_multiple, or DataTooLarge.
IsoSendStart ==
    /\ spc = "idle"
    /\ IF FitsInSingleFrame(txData)
       THEN LET buf == SingleFrameBuf(txData)
                fr == IF PadPanics(buf) THEN Panic ELSE IsoFrame(Pad(buf))
            IN /\ IF fr.ok
                  THEN /\ wire' = Append(wire, fr.val)
                       /\ spc' = "sf_echo"
                       /\ UNCHANGED <<sres, fcStream>>
                  ELSE /\ SendReturns(fr)
                       /\ UNCHANGED wire
               /\ UNCHANGED <<sidx, swait, sinceFc>>
       ELSE IF WithinMaxIsoTpDataLength(txData)
       THEN LET fr == IsoFrame(FirstFrameBuf(txData))
            IN IF fr.ok
               THEN /\ wire' = Append(wire, fr.val)
                    /\ spc' = "wait_fc0"
                    /\ sidx' = 0
                    /\ swait' = 0
                    /\ sinceFc' = 0
                    /\ UNCHANGED <<sres, fcStream>>
               ELSE /\ SendReturns(fr)
                    /\ UNCHANGED <<wire, sidx, swait, sinceFc>>
       ELSE /\ SendReturns(Err("DataTooLarge"))
            /\ UNCHANGED <<wire, sidx, swait, sinceFc>>
    /\ UNCHANGED <<cfg, build, rxOpen, rxPub, rxTaken, txData, sfc, sstmin, rxStream, rbuf, rlen, ridx, rres, rpolls, rarmed,
                   peer, peerCfg, sleeps>>

\* send_single_frame, line 263: the dispatcher has seen the echo of the Single
\* Frame and AsyncCanAdapter::send returns.
IsoSendEchoed ==
    /\ spc = "sf_echo"
    /\ SendReturns(Ok(<<>>))
    /\ UNCHANGED <<cfg, build, rxOpen, rxPub, rxTaken, txData, sidx, sfc, sstmin, swait, wire,
                   rxStream, rbuf, rlen, ridx, rres, rpolls, rarmed, peer, peerCfg, sinceFc, sleeps>>

\* One iteration of the loop of receive_flow_control (lines 310-339) on the
\* next frame of the stream.
IsoRecvFlowControl ==
    /\ spc \in {"wait_fc0", "wait_fc"}
    /\ fcStream # <<>>
    /\ LET frame == Head(fcStream)
           data == From(frame.data, Offset)
           fc == FlowControlConfig(data)
           st_min == IF IsSome(cfg.separation_time_min)
                     THEN Unwrap(cfg.separation_time_min)
                     ELSE fc.val.separation_time_min
       IN IF Len(frame.data) < Offset \/ data = <<>>
          THEN SendReturns(Panic) /\ UNCHANGED <<sfc, sstmin, swait, sinceFc>>
          ELSE IF TypeNibble(data[1]) # FT_FlowControl
          THEN SendReturns(Err("FlowControl")) /\ UNCHANGED <<sfc, sstmin, swait, sinceFc>>
          ELSE IF FlowStatusOf(data[1]) = FS_Wait
          THEN IF swait + 1 = MAX_WAIT_FC
               THEN /\ SendReturns(Err("TooManyFCWait"))
                    /\ swait' = swait + 1
                    /\ UNCHANGED <<sfc, sstmin, sinceFc>>
               ELSE /\ swait' = swait + 1
                    /\ fcStream' = Tail(fcStream)
                    /\ UNCHANGED <<spc, sres, sfc, sstmin, sinceFc>>
          ELSE IF FlowStatusOf(data[1]) = FS_Overflow
          THEN SendReturns(Err("Overflow")) /\ UNCHANGED <<sfc, sstmin, swait, sinceFc>>
          ELSE IF FlowStatusOf(data[1]) # FS_ContinueToSend \/ ~fc.ok
          THEN SendReturns(Err("MalformedFrame")) /\ UNCHANGED <<sfc, sstmin, swait, sinceFc>>
          ELSE /\ sfc' = fc.val
               /\ sstmin' = IF spc = "wait_fc0" THEN st_min ELSE sstmin
               /\ sinceFc' = 0
               /\ UNCHANGED swait
               /\ IF sidx < NumChunks(txData)
                  THEN /\ spc' = "send_cf"
                       /\ fcStream' = Tail(fcStream)
                       /\ UNCHANGED sres
                  ELSE SendReturns(Ok(<<>>))
    /\ UNCHANGED <<cfg, build, rxOpen, rxPub, rxTaken, txData, sidx, wire, rxStream, rbuf, rlen, ridx, rres, rpolls, rarmed,
                   peer, peerCfg, sleeps>>

\* One iteration of the loop of send_multiple (lines 374-388): the
\* Consecutive Frame of chunk sidx, then the separation time or the wait for
\* the next Flow Control.
IsoSendCF ==
    /\ spc = "send_cf"
    /\ LET buf == ConsecutiveBuf(Chunk(txData, sidx), sidx)
           fr == IF PadPanics(buf) THEN Panic ELSE IsoFrame(Pad(buf))
           last == sidx + 1 = NumChunks(txData)
       IN IF ~fr.ok
          THEN SendReturns(fr) /\ UNCHANGED <<wire, sidx, swait, sinceFc, sleeps>>
          ELSE /\ wire' = Append(wire, fr.val)
               /\ sinceFc' = sinceFc + 1
               /\ sidx' = sidx + 1
               /\ IF WaitAfterChunk(sfc.block_size, sidx)
                  THEN /\ spc' = "wait_fc"
                       /\ swait' = 0
                       /\ UNCHANGED <<sres, fcStream, sleeps>>
                  ELSE /\ sleeps' = IF last THEN sleeps ELSE Append(sleeps, sstmin)
                       /\ UNCHANGED swait
                       /\ IF last THEN SendReturns(Ok(<<>>))
                          ELSE UNCHANGED <<spc, sres, fcStream>>
    /\ UNCHANGED <<cfg, build, rxOpen, rxPub, rxTaken, txData, sfc, sstmin, rxStream, rbuf, rlen, ridx, rres, rpolls, rarmed,
                   peer, peerCfg>>

(***************************************************************************)
(* IsoTPAdapter::recv (lines 412-575).                                     *)
(***************************************************************************)
\* recv_single_frame (lines 412-430)
RecvSingleFrame(data) ==
    LET escape == data[1] % 16 = 0
        len == IF escape THEN data[2] ELSE data[1] % 16
        offset == IF escape THEN 2 ELSE 1
    IN IF escape /\ Len(data) < 2 THEN Panic
       ELSE IF len + offset > Len(data) THEN Err("MalformedFrame")
       ELSE Ok(SubSeq(data, offset + 1, len + offset))

\* recv_first_frame (lines 432-462): the announced length, the bytes for buf
\* and the Flow Control frame it transmits.
RecvFirstFrame(data) ==
    LET len12 == IF Len(data) < 2 THEN 0 ELSE (data[1] * 256 + data[2]) % 4096
        escape == len12 = 0
        len == IF escape
               THEN data[3] * 16777216 + data[4] * 65536 + data[5] * 256 + data[6]
               ELSE len12
        offset == IF escape THEN 6 ELSE 2
        fc == IsoFrame(Pad(<<FT_FlowControl, 0, 0>>))
    IN IF Len(data) < 2 \/ (escape /\ Len(data) < 6) THEN Panic
       ELSE IF Len(data) < MaxCanDataLength THEN Err("MalformedFrame")
       ELSE IF ~fc.ok THEN fc
       ELSE Ok([len |-> len, buf |-> From(data, offset), fc |-> fc.val])

\* recv_consecutive_frame (lines 464-504): the new buf and idx.  The
\* subtraction len - buf.len() is on usize: with overflow checks it panics
\* when negative, without them it wraps to a huge number (and to the largest
\* one when the difference is -1: then remaining_len + 1 is 0 and the slice
\* data[1..0] panics).
RecvConsecutiveFrame(data, buf, len, idx) ==
    LET msg_idx == data[1] % 16
        wraps == len < Len(buf)
        tx_dl == MaxCanDataLength
        remaining_len == len - Len(buf)
        end_idx == IF wraps THEN Len(data) ELSE Min(remaining_len + 1, Len(data))
    IN IF wraps /\ (build = "debug" \/ Len(buf) - len = 1) THEN Panic
       ELSE IF (wraps \/ remaining_len >= tx_dl - 1) /\ Len(data) < tx_dl
       THEN Err("MalformedFrame")
       ELSE IF ~wraps /\ remaining_len < tx_dl - 1 /\ Len(data) - 1 < remaining_len
       THEN Err("MalformedFrame")
       ELSE IF msg_idx # idx THEN Err("OutOfOrder")
       ELSE Ok([buf |-> buf \o SubSeq(data, 2, end_idx),
                idx |-> IF idx = 15 THEN 0 ELSE idx + 1])

\* (RecvYieldsStale: buf, len and idx outlive the call.)
RecvYieldsStale(r) ==
    /\ rres' = Append(rres, r)
    /\ UNCHANGED <<rbuf, rlen, ridx>>

\* The stream of recv() yields r; the next recv_from_stream starts afresh.
RecvYields(r) ==
    /\ rres' = Append(rres, r)
    /\ rbuf' = <<>>
    /\ rlen' = None
    /\ ridx' = 1

\* The program is in stream.next() of the recv() stream: after its send, or
\* without one.
RecvPolling == spc \in {"done", "nosend"} /\ Len(rres) < rpolls

\* Timeout of tokio-stream, wrapped around the frames by recv() (line 567):
\* an item of the inner stream moves the deadline and makes the stream poll
\* it again; after the deadline fired (Elapsed) it is not polled until the
\* next item.
DeadlineKept(armed) == armed
DeadlineAfterItem(armed) == TRUE
DeadlineAfterElapsed(armed) == FALSE

\* Some(FrameType::FlowControl) => {} (line 540; FlowControlEnds: the frame
\* ends the cycle like one of an unknown type).
FlowControlEnds == RecvYields(Err("UnknownFrameType")) /\ UNCHANGED wire
FlowControlIgnored == UNCHANGED <<wire, rbuf, rlen, ridx, rres>>

\* One iteration of the loop of recv_from_stream (lines 515-546) on the next
\* frame of the stream.
IsoRecvFrame ==
    /\ RecvPolling
    /\ rxStream # <<>>
    /\ rxStream' = Tail(rxStream)
    /\ rxTaken' = Append(rxTaken, Head(rxStream))
    /\ rarmed' = DeadlineAfterItem(rarmed)
    /\ LET frame == Head(rxStream)
           data == From(frame.data, Offset)
           ff == RecvFirstFrame(data)
           cf == RecvConsecutiveFrame(data, rbuf, Unwrap(rlen), ridx)
       IN IF Len(frame.data) < Offset \/ data = <<>>
          THEN RecvYields(Panic) /\ UNCHANGED wire
          ELSE IF TypeNibble(data[1]) = FT_Single
          THEN RecvYields(RecvSingleFrame(data)) /\ UNCHANGED wire
          ELSE IF TypeNibble(data[1]) = FT_First
          THEN IF IsSome(rlen) THEN RecvYields(Err("OutOfOrder")) /\ UNCHANGED wire
               ELSE IF ~ff.ok THEN RecvYields(ff) /\ UNCHANGED wire
               ELSE /\ rbuf' = rbuf \o ff.val.buf
                    /\ rlen' = Some(ff.val.len)
                    /\ wire' = Append(wire, ff.val.fc)
                    /\ UNCHANGED <<ridx, rres>>
          ELSE IF TypeNibble(data[1]) = FT_Consecutive
          THEN /\ UNCHANGED wire
               /\ IF ~IsSome(rlen) THEN RecvYields(Err("OutOfOrder"))
                  ELSE IF ~cf.ok THEN RecvYields(cf)
                  ELSE IF Len(cf.val.buf) >= Unwrap(rlen) THEN RecvYields(Ok(cf.val.buf))
                  ELSE /\ rbuf' = cf.val.buf
                       /\ ridx' = cf.val.idx
                       /\ UNCHANGED <<rlen, rres>>
          ELSE IF TypeNibble(data[1]) = FT_FlowControl
          THEN FlowControlIgnored
          ELSE RecvYields(Err("UnknownFrameType")) /\ UNCHANGED wire
    /\ UNCHANGED <<cfg, build, rxOpen, rxPub, txData, spc, sres, sidx, sfc, sstmin, swait, fcStream,
                   rpolls, peer, peerCfg, sinceFc, sleeps>>

(***************************************************************************)
(* The remote endpoint: an ISO 15765-2 node on the receive identifier that *)
(* reassembles each datagram sent to it and sends it back.  It uses the    *)
(* addressing, padding and CAN-FD settings of the local configuration; its *)
(* block size, STmin and number of Wait frames are peerCfg; a lenient peer  *)
(* takes a Single Frame of length 0 for the empty datagram, a silent peer  *)
(* is not there.                                                           *)
(***************************************************************************)
PEER_PADDING_BYTE == 204
PeerTxDl == (IF cfg.fd THEN 64 ELSE 8) - Offset

PeerPad(bytes) ==
    LET n == Len(bytes) + Offset
        fill == IF IsSome(cfg.padding) THEN Unwrap(cfg.padding) ELSE PEER_PADDING_BYTE
        next == CHOOSE l \in DlcLens : l >= n /\ \A m \in DlcLens : m >= n => l <= m
    IN IF n < 8 THEN (IF IsSome(cfg.padding) THEN bytes \o Repeat(fill, 8 - n) ELSE bytes)
       ELSE bytes \o Repeat(fill, next - n)

PeerFrame(bytes) ==
    MkFrame(cfg.bus, cfg.rx,
            (IF IsSome(cfg.ext_address) THEN <<Unwrap(cfg.ext_address)>> ELSE <<>>)
                \o PeerPad(bytes),
            FALSE, cfg.fd)

PeerFlowControl(status) == PeerFrame(<<48 + status, peerCfg.bs, peerCfg.stmin>>)

\* A frame of the peer with exactly these bytes after the address byte.
PeerRawFrame(bytes) ==
    MkFrame(cfg.bus, cfg.rx,
            (IF IsSome(cfg.ext_address) THEN <<Unwrap(cfg.ext_address)>> ELSE <<>>) \o bytes,
            FALSE, cfg.fd)

\* What the peer transmits when its next ContinueToSend is due: a faulty peer
\* transmits the frame peerCfg.fc in place of the one numbered peerCfg.fcAt.
PeerContinue(p) ==
    IF IsSome(peerCfg.fc) /\ p.fcs + 1 = peerCfg.fcAt
    THEN PeerRawFrame(Unwrap(peerCfg.fc))
    ELSE PeerFlowControl(0)

\* The frames of datagram d: a Single Frame, or a First Frame and its
\* Consecutive Frames.
PeerFitsSingle(d) == Len(d) <= (IF cfg.fd THEN PeerTxDl - 2 ELSE PeerTxDl - 1)
PeerSingle(d) == IF Len(d) <= 7 - Offset THEN <<Len(d)>> \o d ELSE <<0, Len(d)>> \o d
PeerFirstHeader(d) ==
    IF Len(d) <= 4095 THEN <<16 + Len(d) \div 256, Len(d) % 256>>
    ELSE <<16, 0, (Len(d) \div 16777216) % 256, (Len(d) \div 65536) % 256,
           (Len(d) \div 256) % 256, Len(d) % 256>>
PeerFirstCount(d) == PeerTxDl - Len(PeerFirstHeader(d))
PeerFirst(d) == PeerFirstHeader(d) \o SubSeq(d, 1, PeerFirstCount(d))
PeerConsecutive(d, k) ==
    LET from == PeerFirstCount(d) + k * (PeerTxDl - 1)
    IN <<32 + ((k + 1) % 16)>> \o SubSeq(d, from + 1, Min(from + PeerTxDl - 1, Len(d)))
PeerLastConsecutive(d, k) == PeerFirstCount(d) + (k + 1) * (PeerTxDl - 1) >= Len(d)

\* The peer has the whole datagram d: it queues what it answers, d itself or
\* the datagrams of its script.
PeerEcho(p, d) ==
    [peer |-> [p EXCEPT !.rlen = None, !.rbuf = <<>>,
                        !.equeue = p.equeue \o (IF peerCfg.echo THEN <<d>> ELSE peerCfg.script)],
     out |-> <<>>]

\* The peer handles frame f: its new state and the frames it transmits.
PeerOnFrame(p, f) ==
    LET d == From(f.data, Offset)
        nib == d[1] % 16
        ignore == [peer |-> p, out |-> <<>>]
        ffLen12 == (d[1] % 16) * 256 + d[2]
        ffEsc == ffLen12 = 0
        ffLen == IF ffEsc THEN d[3] * 16777216 + d[4] * 65536 + d[5] * 256 + d[6]
                 ELSE ffLen12
        ffData == From(d, IF ffEsc THEN 6 ELSE 2)
        take == Min(Unwrap(p.rlen) - Len(p.rbuf), Len(d) - 1)
        buf == p.rbuf \o SubSeq(d, 2, take + 1)
    IN IF f.id # cfg.tx \/ Len(f.data) <= Offset THEN ignore
       ELSE IF TypeNibble(d[1]) = 0
       THEN IF nib >= 1 /\ nib <= 7 - Offset /\ nib <= Len(d) - 1
            THEN PeerEcho(p, SubSeq(d, 2, nib + 1))
            ELSE IF nib = 0 /\ Len(f.data) > 8 /\ d[2] >= 1 /\ d[2] <= Len(d) - 2
            THEN PeerEcho(p, SubSeq(d, 3, d[2] + 2))
            ELSE IF nib = 0 /\ Len(f.data) <= 8 /\ peerCfg.lenient
            THEN PeerEcho(p, <<>>)
            ELSE ignore
       ELSE IF TypeNibble(d[1]) = 16
       THEN IF Len(d) # PeerTxDl \/ ffLen <= Len(ffData) THEN ignore
            ELSE [peer |-> [p EXCEPT !.rlen = Some(ffLen), !.rbuf = ffData, !.rcnt = 0,
                                     !.fcs = 1],
                  out |-> [i \in 1..peerCfg.waits |-> PeerFlowControl(1)]
                              \o <<PeerContinue([p EXCEPT !.fcs = 0])>>]
       ELSE IF TypeNibble(d[1]) = 32
       THEN IF ~IsSome(p.rlen) THEN ignore
            ELSE IF nib # (p.rcnt + 1) % 16
            THEN [peer |-> [p EXCEPT !.rlen = None, !.rbuf = <<>>], out |-> <<>>]
            ELSE IF Len(buf) >= Unwrap(p.rlen) THEN PeerEcho(p, buf)
            ELSE IF peerCfg.bs # 0 /\ (p.rcnt + 1) % peerCfg.bs = 0
            THEN [peer |-> [p EXCEPT !.rbuf = buf, !.rcnt = p.rcnt + 1, !.fcs = p.fcs + 1],
                  out |-> <<PeerContinue(p)>>]
            ELSE [peer |-> [p EXCEPT !.rbuf = buf, !.rcnt = p.rcnt + 1], out |-> <<>>]
       ELSE IF TypeNibble(d[1]) = 48
       THEN IF p.epc = "wait_fc" /\ nib = 0
            THEN [peer |-> [p EXCEPT !.epc = "cfs"], out |-> <<>>]
            ELSE ignore
       ELSE ignore

\* The peer takes the next frame from the bus.
PeerReceive ==
    /\ ~peerCfg.silent
    /\ peer.pos < Len(wire)
    /\ LET r == PeerOnFrame(peer, wire[peer.pos + 1])
       IN /\ peer' = [r.peer EXCEPT !.pos = peer.pos + 1]
          /\ Deliver(r.out)
    /\ UNCHANGED <<cfg, build, rxOpen, rxTaken, txData, spc, sres, sidx, sfc, sstmin, swait, wire,
                   rbuf, rlen, ridx, rres, rpolls, rarmed, peerCfg, sinceFc, sleeps>>

\* The peer starts to transmit the next datagram it has queued: a Single
\* Frame, or a First Frame, after which it awaits the Flow Control.
PeerSendStart ==
    /\ peer.epc = "idle"
    /\ peer.equeue # <<>>
    /\ LET d == Head(peer.equeue)
       IN IF PeerFitsSingle(d)
          THEN /\ peer' = [peer EXCEPT !.equeue = Tail(peer.equeue)]
               /\ Deliver(<<PeerFrame(PeerSingle(d))>>)
          ELSE /\ peer' = [peer EXCEPT !.equeue = Tail(peer.equeue), !.epc = "wait_fc",
                                       !.edata = d, !.eidx = 0]
               /\ Deliver(<<PeerFrame(PeerFirst(d))>>)
    /\ UNCHANGED <<cfg, build, rxOpen, rxTaken, txData, spc, sres, sidx, sfc, sstmin, swait, wire,
                   rbuf, rlen, ridx, rres, rpolls, rarmed, peerCfg, sinceFc, sleeps>>

\* The peer transmits the next Consecutive Frame of the datagram it sends back.
PeerSendCF ==
    /\ peer.epc = "cfs"
    /\ peer' = [peer EXCEPT !.eidx = peer.eidx + 1,
                            !.epc = IF PeerLastConsecutive(peer.edata, peer.eidx)
                                    THEN "idle" ELSE "cfs"]
    /\ Deliver(<<PeerFrame(PeerConsecutive(peer.edata, peer.eidx))>>)
    /\ UNCHANGED <<cfg, build, rxOpen, rxTaken, txData, spc, sres, sidx, sfc, sstmin, swait, wire,
                   rbuf, rlen, ridx, rres, rpolls, rarmed, peerCfg, sinceFc, sleeps>>

\* A peer that transmits on its own: peerCfg.raw is what it does, item by
\* item, a frame with the given bytes or a pause longer than the timeout.
RawFrame(bytes) == [gap |-> FALSE, data |-> bytes]
RawGap == [gap |-> TRUE, data |-> <<>>]
RawLeft == peer.rawpos < Len(peerCfg.raw)
RawNext == peerCfg.raw[peer.rawpos + 1]

PeerRaw ==
    /\ RawLeft
    /\ ~RawNext.gap
    /\ peer' = [peer EXCEPT !.rawpos = peer.rawpos + 1]
    /\ Deliver(<<PeerRawFrame(RawNext.data)>>)
    /\ UNCHANGED <<cfg, build, rxOpen, rxTaken, txData, spc, sres, sidx, sfc, sstmin, swait, wire,
                   rbuf, rlen, ridx, rres, rpolls, rarmed, peerCfg, sinceFc, sleeps>>

\* Nothing more will arrive within the timeout unless the local side
\* transmits (an ECU that stays busy, tag "pending", is never that late).
PeerQuiet ==
    /\ peerCfg.silent \/ peer.pos = Len(wire)
    /\ peer.epc # "cfs"
    /\ peer.epc = "idle" => peer.equeue = <<>>
    /\ RawLeft => RawNext.gap
    /\ peerCfg.tag # "pending"

\* A pause of the peer passes while no deadline is polled; a task that polls
\* the stream has taken the frames that arrived before the pause.
PeerPause ==
    /\ RawLeft
    /\ RawNext.gap
    /\ ~rarmed
    /\ RecvPolling => rxStream = <<>>
    /\ peer' = [peer EXCEPT !.rawpos = peer.rawpos + 1]
    /\ UNCHANGED <<cfg, build, rxOpen, rxPub, rxTaken, txData, spc, sres, sidx, sfc, sstmin, swait,
                   fcStream, wire, rxStream, rbuf, rlen, ridx, rres, rpolls, rarmed, peerCfg,
                   sinceFc, sleeps>>

\* The timeout of the stream of send_multiple expires (line 313: the `?`).
IsoSendTimeout ==
    /\ spc \in {"wait_fc0", "wait_fc"}
    /\ fcStream = <<>>
    /\ PeerQuiet
    /\ ~RawLeft
    /\ SendReturns(Err("Timeout"))
    /\ UNCHANGED <<cfg, build, rxOpen, rxPub, rxTaken, txData, sidx, sfc, sstmin, swait, wire, rxStream,
                   rbuf, rlen, ridx, rres, rpolls, rarmed, peer, peerCfg, sinceFc, sleeps>>

\* The deadline of the stream of recv() expires while it is polled (line 517:
\* the `?`); a pause of the peer is over with it.
IsoRecvTimeout ==
    /\ RecvPolling
    /\ rxStream = <<>>
    /\ PeerQuiet
    /\ rarmed
    /\ rarmed' = DeadlineAfterElapsed(rarmed)
    /\ RecvYields(Err("Timeout"))
    /\ peer' = IF RawLeft THEN [peer EXCEPT !.rawpos = peer.rawpos + 1] ELSE peer
    /\ UNCHANGED <<cfg, build, rxOpen, rxPub, rxTaken, txData, spc, sres, sidx, sfc, sstmin, swait, fcStream,
                   wire, rxStream, rpolls, peerCfg, sinceFc, sleeps>>

(***************************************************************************)
(* The ISO-TP specification: one datagram is sent to the peer and the      *)
(* datagram it sends back is received (tests/isotp_tests.rs).              *)
(***************************************************************************)
MaxLen == 22
MaxBs == 2
MaxPeerWaits == 11

\* IsoTPConfig::new (lines 61-74) with the ids of the tests
DefaultConfig ==
    [bus |-> 0, tx |-> Standard(1953), rx |-> Standard(1961),
     padding |-> Some(DEFAULT_PADDING_BYTE), separation_time_min |-> None,
     fd |-> FALSE, ext_address |-> None, max_dlen |-> None]

NoFlowControl == [block_size |-> 0, separation_time_min |-> 0]
PeerIdle == [pos |-> 0, rlen |-> None, rbuf |-> <<>>, rcnt |-> 0, fcs |-> 0, rawpos |-> 0,
             equeue |-> <<>>, epc |-> "idle", edata |-> <<>>, eidx |-> 0]
PeerDefault == [bs |-> 0, stmin |-> 0, waits |-> 0, lenient |-> FALSE, silent |-> FALSE,
                echo |-> TRUE, script |-> <<>>, fc |-> None, fcAt |-> 0, raw |-> <<>>,
                good |-> <<>>, tag |-> ""]

\* No ISO-TP transfer: the state of the ISO-TP layer in the dispatcher
\* specifications.
IsoIdle ==
    /\ cfg = DefaultConfig
    /\ build = "debug"
    /\ rxOpen = FALSE
    /\ txData = <<>>
    /\ spc = "idle"
    /\ sres = <<>>
    /\ sidx = 0
    /\ sfc = NoFlowControl
    /\ sstmin = 0
    /\ swait = 0
    /\ fcStream = <<>>
    /\ wire = <<>>
    /\ rxStream = <<>>
    /\ rbuf = <<>>
    /\ rlen = None
    /\ ridx = 1
    /\ rres = <<>>
    /\ rpolls = 0
    /\ rarmed = TRUE
    /\ peer = PeerIdle
    /\ peerCfg = PeerDefault
    /\ sinceFc = 0
    /\ sleeps = <<>>
    /\ rxPub = <<>>
    /\ rxTaken = <<>>

\* The datagram of n bytes the tests send (a pattern instead of 0xaa, so that
\* misplaced bytes show).
Payload(n) == [i \in 1..n |-> (i * 37 + 11) % 256]

\* The configurations of the tests: padding, extended address, CAN-FD.
Configs ==
    {[DefaultConfig EXCEPT !.padding = p, !.ext_address = e, !.fd = f] :
        p \in {None, Some(DEFAULT_PADDING_BYTE)}, e \in {None, Some(241)},
        f \in BOOLEAN}

\* isotp_test_padding: another padding byte than the default, datagrams of
\* one frame, of two, of three.
TEST_PADDING_BYTE == 204
PaddedLens == {1, 5, 9, 20}

\* Lengths beyond MaxLen: the sequence number wraps (118), the CAN-FD single
\* frame limit (61..63), two CAN-FD frames (125, 126), above 4095 (4096).
LongLens(c) == IF c.fd THEN {61, 62, 63, 125, 126} ELSE {118}
HugeLen == 4096

\* STmin bytes of the peer: none, 5 ms, 100 us
PeerStMins == {0, 5, 241}

\* What a faulty peer transmits in place of a ContinueToSend: Flow Controls
\* with status Overflow, with an undefined status, with fewer than 3 bytes,
\* with an undefined STmin, a Wait of one byte, frames of the other types,
\* and a frame without data.
FaultyFlowControls ==
    {<<50, 0, 0>>, <<50>>, <<51, 0, 0>>, <<63, 2, 5>>, <<48>>, <<48, 0>>,
     <<48, 0, 128>>, <<48, 0, 240>>, <<48, 0, 250>>, <<48, 0, 255>>, <<49>>,
     <<2, 62, 0>>, <<16, 20, 1, 2, 3, 4, 5, 6>>, <<33, 1, 2, 3, 4, 5, 6, 7>>,
     <<64, 0, 0>>, <<>>}

\* What a peer transmits on its own, as the tests of the receive path would
\* have it: frames and pauses after which recv() has yielded an error (or
\* two), then a well-formed datagram, in one frame or in two.
GoodSingle == <<RawFrame(<<3, 1, 2, 3, 170, 170, 170, 170>>)>>
GoodFirst == RawFrame(<<16, 10, 1, 2, 3, 4, 5, 6>>)
GoodMulti == <<GoodFirst, RawFrame(<<33, 7, 8, 9, 10, 170, 170, 170>>)>>
BadStarts ==
    {[raw |-> <<RawGap>>, errors |-> 1],
     [raw |-> <<RawGap, RawGap>>, errors |-> 1],
     [raw |-> <<GoodFirst, RawGap>>, errors |-> 1],
     [raw |-> <<GoodFirst, RawFrame(<<34, 7, 8, 9, 10, 170, 170, 170>>)>>, errors |-> 1],
     [raw |-> <<RawFrame(<<33, 7, 8, 9, 10, 170, 170, 170>>)>>, errors |-> 1],
     [raw |-> <<GoodFirst, GoodFirst>>, errors |-> 1],
     [raw |-> <<RawFrame(<<16, 10, 1, 2>>)>>, errors |-> 1],
     [raw |-> <<RawFrame(<<7, 1, 2>>)>>, errors |-> 1],
     [raw |-> <<RawFrame(<<64, 0, 0, 0, 0, 0, 0, 0>>)>>, errors |-> 1],
     [raw |-> <<RawGap, GoodFirst, RawGap>>, errors |-> 2],
     [raw |-> <<RawFrame(<<80, 1>>), RawFrame(<<33, 1, 2, 3, 4, 5, 6, 7>>)>>, errors |-> 2]}
\* Largest number of items pulled from one recv() stream.
MaxPolls == 3
RawScripts ==
    {[raw |-> b.raw \o g.raw, good |-> g.good, polls |-> b.errors + 1] :
        b \in {x \in BadStarts : x.errors < MaxPolls},
        g \in {[raw |-> GoodSingle, good |-> <<1, 2, 3>>],
                [raw |-> GoodMulti, good |-> <<1, 2, 3, 4, 5, 6, 7, 8, 9, 10>>]}}

\* The bytes 1, 2, .., n.
Count(n) == [i \in 1..n |-> i]

\* What a peer transmits for one datagram of several frames: First Frames
\* that declare more than they carry, as much, and less; last Consecutive
\* Frames that are full, padded, short, or that carry more than is left.
\* good is the datagram of the declared length.
LengthScripts ==
    {[fd |-> FALSE, raw |-> GoodMulti, good |-> Count(10)],
     [fd |-> FALSE, good |-> Count(13),
      raw |-> <<RawFrame(<<16, 13, 1, 2, 3, 4, 5, 6>>),
                RawFrame(<<33, 7, 8, 9, 10, 11, 12, 13>>)>>],
     [fd |-> FALSE, good |-> Count(14),
      raw |-> <<RawFrame(<<16, 14, 1, 2, 3, 4, 5, 6>>),
                RawFrame(<<33, 7, 8, 9, 10, 11, 12, 13>>),
                RawFrame(<<34, 14, 170, 170, 170, 170, 170, 170>>)>>],
     [fd |-> FALSE, good |-> Count(10),
      raw |-> <<GoodFirst, RawFrame(<<33, 7, 8, 9, 10>>)>>],
     [fd |-> FALSE, good |-> Count(10),
      raw |-> <<GoodFirst, RawFrame(<<33, 7, 8, 9, 10, 11, 12, 13>>)>>],
     [fd |-> TRUE, good |-> Count(70),
      raw |-> <<RawFrame(<<16, 70>> \o Count(62)),
                RawFrame(<<33, 63, 64, 65, 66, 67, 68, 69, 70, 170, 170, 170>>)>>],
     [fd |-> FALSE, good |-> Count(6),
      raw |-> <<RawFrame(<<16, 6, 1, 2, 3, 4, 5, 6>>),
                RawFrame(<<33, 170, 170, 170, 170, 170, 170, 170>>)>>],
     [fd |-> FALSE, good |-> Count(5),
      raw |-> <<RawFrame(<<16, 5, 1, 2, 3, 4, 5, 170>>),
                RawFrame(<<33, 170, 170, 170, 170, 170, 170, 170>>)>>],
     [fd |-> FALSE, good |-> Count(4),
      raw |-> <<RawFrame(<<16, 4, 1, 2, 3, 4, 170, 170>>),
                RawFrame(<<33, 170, 170, 170, 170, 170, 170, 170>>)>>]}

\* A datagram of 125 bytes in a First Frame and 17 Consecutive Frames that
\* bear the sequence numbers seqs.
LongFrames(seqs) ==
    <<RawFrame(<<16, 125, 1, 2, 3, 4, 5, 6>>)>> \o
    [i \in 1..Len(seqs) |-> RawFrame(<<FT_Consecutive + seqs[i], i, i, i, i, i, i, i>>)]

\* What a peer transmits whose Consecutive Frames are out of order: with the
\* sequence numbers through the wrap-around, with one that does not wrap, one
\* that starts at 0, and wrong numbers on a frame that is too short and after
\* a First Frame that carried more than it declared.
OrderScripts ==
    {LongFrames([i \in 1..17 |-> i % 16]),
     LongFrames([i \in 1..17 |-> IF i = 16 THEN 1 ELSE i % 16]),
     LongFrames([i \in 1..17 |-> IF i = 16 THEN 15 ELSE i % 16]),
     <<GoodFirst, RawFrame(<<32, 7, 8, 9, 10, 170, 170, 170>>)>>,
     <<RawFrame(<<16, 20, 1, 2, 3, 4, 5, 6>>), RawFrame(<<34, 7, 8>>)>>,
     <<RawFrame(<<16, 20, 1, 2, 3, 4, 5, 6>>), RawFrame(<<33, 7, 8, 9, 10, 11, 12, 13>>),
       RawFrame(<<35, 14, 15, 16, 17, 18, 19, 20>>)>>,
     <<GoodFirst, RawFrame(<<34, 7, 8>>)>>,
     <<RawFrame(<<16, 4, 1, 2, 3, 4, 170, 170>>),
       RawFrame(<<34, 170, 170, 170, 170, 170, 170, 170>>)>>}

\* What a peer transmits that begins with a First Frame shorter than a full
\* frame: 7 bytes, 4 bytes, the type byte alone, and an escape sequence cut
\* short.
FirstScripts ==
    {<<RawFrame(<<16, 10, 1, 2, 3, 4, 5>>)>>,
     <<RawFrame(<<16, 10, 1, 2>>)>>,
     <<RawFrame(<<16, 10>>)>>,
     <<RawFrame(<<16>>)>>,
     <<RawFrame(<<16, 0, 0, 0>>)>>,
     GoodMulti}

\* What a peer transmits that sends Flow Controls of its own besides a
\* datagram: before the First Frame, between the frames, of each status and
\* of one byte.
FlowControlScripts ==
    {<<RawFrame(<<48, 0, 0>>), GoodFirst, RawFrame(<<48, 0, 0, 170, 170, 170, 170, 170>>),
       RawFrame(<<33, 7, 8, 9, 10, 170, 170, 170>>)>>,
     <<GoodFirst, RawFrame(<<49, 0, 0>>), RawFrame(<<50>>),
       RawFrame(<<33, 7, 8, 9, 10, 170, 170, 170>>)>>,
     <<RawFrame(<<48, 2, 5>>), RawFrame(<<3, 1, 2, 3>>)>>}

\* What a peer transmits that is too short for what it announces: a frame
\* without data, Single Frames without the length byte of the escape form or
\* with fewer bytes than their length, First Frames without their length
\* field, a Consecutive Frame of one byte, a frame of an undefined type.
ShortScripts ==
    {<<RawFrame(<<>>)>>,
     <<RawFrame(<<0>>)>>,
     <<RawFrame(<<0, 5, 1, 2>>)>>,
     <<RawFrame(<<5, 1, 2>>)>>,
     <<RawFrame(<<16>>)>>,
     <<RawFrame(<<16, 0, 0, 0>>)>>,
     <<RawFrame(<<144, 1, 2>>)>>,
     <<GoodFirst, RawFrame(<<33>>)>>}

\* A peer whose second Flow Control announces another STmin than its first
\* (5 ms, 100 us, none) and another block size, for a datagram of a First
\* Frame and four Consecutive Frames; the override of the configuration is
\* 2 ms.
StMinLen == 34
LaterFlowControls == {<<48, 0, 5>>, <<48, 3, 241>>, <<48, 0, 0>>}
StMinOverrides == {None, Some(2000)}

\* Overflow checks of the build: on by default in the dev profile, off in the
\* release profile.
Builds == {"debug", "release"}

IsoStartBuild(c, data, pc, at, polls, b) ==
    /\ cfg = c
    /\ build = b
    /\ rxOpen = TRUE
    /\ txData = data
    /\ spc = at
    /\ sres = <<>>
    /\ sidx = 0
    /\ sfc = NoFlowControl
    /\ sstmin = 0
    /\ swait = 0
    /\ fcStream = <<>>
    /\ wire = <<>>
    /\ rxStream = <<>>
    /\ rbuf = <<>>
    /\ rlen = None
    /\ ridx = 1
    /\ rres = <<>>
    /\ rpolls = polls
    /\ rarmed = TRUE
    /\ peer = PeerIdle
    /\ peerCfg = pc
    /\ sinceFc = 0
    /\ sleeps = <<>>
    /\ rxPub = <<>>
    /\ rxTaken = <<>>

IsoStartAt(c, data, pc, at, polls) == IsoStartBuild(c, data, pc, at, polls, "debug")

\* send(&Payload(n)) and one item of recv(), as isotp_test_echo.
IsoStart(c, n, pc) == IsoStartAt(c, Payload(n), pc, "idle", 1)
\* recv() alone.
IsoRecvOnly(c, pc, polls) == IsoStartAt(c, <<>>, pc, "nosend", polls)

IsoInit ==
    \/ \E sc \in RawScripts :
          IsoRecvOnly(DefaultConfig,
                      [PeerDefault EXCEPT !.raw = sc.raw, !.good = sc.good,
                                          !.tag = "recover"], sc.polls)
    \/ \E sc \in LengthScripts, b \in Builds :
          IsoStartBuild([DefaultConfig EXCEPT !.fd = sc.fd], <<>>,
                        [PeerDefault EXCEPT !.raw = sc.raw, !.good = sc.good,
                                            !.tag = "length"], "nosend", 1, b)
    \/ \E raw \in FirstScripts, p \in {None, Some(DEFAULT_PADDING_BYTE)} :
          IsoRecvOnly([DefaultConfig EXCEPT !.padding = p],
                      [PeerDefault EXCEPT !.raw = raw, !.tag = "first"], 1)
    \/ \E raw \in FlowControlScripts :
          IsoRecvOnly(DefaultConfig,
                      [PeerDefault EXCEPT !.raw = raw, !.tag = "ignore",
                                          !.good = Count(IF Len(raw) = 2 THEN 3 ELSE 10)], 1)
    \/ \E raw \in ShortScripts, e \in {None, Some(241)} :
          /\ IsSome(e) => Len(raw) = 1
          /\ IsoRecvOnly([DefaultConfig EXCEPT !.ext_address = e],
                         [PeerDefault EXCEPT !.raw = raw, !.tag = "short"], 1)
    \/ \E o \in StMinOverrides, st \in {0, 5}, fc \in LaterFlowControls :
          IsoStart([DefaultConfig EXCEPT !.separation_time_min = o], StMinLen,
                   [PeerDefault EXCEPT !.bs = 1, !.stmin = st, !.fc = Some(fc), !.fcAt = 2,
                                       !.tag = "stmin"])
    \/ \E raw \in OrderScripts, b \in Builds :
          IsoStartBuild(DefaultConfig, <<>>,
                        [PeerDefault EXCEPT !.raw = raw, !.tag = "order"], "nosend", 1, b)
    \/ \E c \in Configs, bs \in 0..MaxBs, st \in PeerStMins, l \in BOOLEAN :
        \E n \in (0..MaxLen) \cup LongLens(c) :
          /\ l => n = 0
          /\ IsoStart(c, n, [PeerDefault EXCEPT !.bs = bs, !.stmin = st, !.lenient = l])
    \/ \E e \in {None, Some(241)}, f \in BOOLEAN, n \in PaddedLens :
          IsoStart([DefaultConfig EXCEPT !.padding = Some(TEST_PADDING_BYTE),
                                         !.ext_address = e, !.fd = f], n, PeerDefault)
    \/ \E w \in 1..MaxPeerWaits, bs \in 0..MaxBs :
          IsoStart(DefaultConfig, MaxLen, [PeerDefault EXCEPT !.bs = bs, !.waits = w])
    \/ IsoStart(DefaultConfig, MaxLen, [PeerDefault EXCEPT !.silent = TRUE])
    \/ \E e \in {None, Some(241)}, fc \in FaultyFlowControls, at \in 1..2 :
          IsoStart([DefaultConfig EXCEPT !.ext_address = e], MaxLen,
                   [PeerDefault EXCEPT !.bs = 1, !.fc = Some(fc), !.fcAt = at])
    \/ \E f \in BOOLEAN, e \in {None, Some(241)} :
          IsoStart([DefaultConfig EXCEPT !.fd = f, !.ext_address = e], HugeLen, PeerDefault)

\* No UDS request: the state of the UDS client in the other specifications.
UdsIdle ==
    /\ upc = "idle"
    /\ ureq = [sid |-> 0, sub_function |-> None, data |-> None]
    /\ ures = <<>>

(***************************************************************************)
(* UDS (src/uds/mod.rs): UDSClient::request over the ISO-TP adapter.       *)
(***************************************************************************)
POSITIVE_RESPONSE == 64
NEGATIVE_RESPONSE == 127

\* u8 | u8
RECURSIVE BitOr(_, _)
BitOr(a, b) ==
    IF a = 0 THEN b
    ELSE IF b = 0 THEN a
    ELSE (IF a % 2 = 1 \/ b % 2 = 1 THEN 1 ELSE 0) + 2 * BitOr(a \div 2, b \div 2)

\* impl From<u8> for NegativeResponseCode (src/uds/error.rs:32-61)
NegativeResponseCode(val) ==
    CASE val = 16 -> <<"GeneralReject">>
      [] val = 17 -> <<"ServiceNotSupported">>
      [] val = 18 -> <<"SubFunctionNotSupported">>
      [] val = 19 -> <<"IncorrectMessageLengthOrInvalidFormat">>
      [] val = 20 -> <<"ResponseTooLong">>
      [] val = 33 -> <<"BusyRepeatRequest">>
      [] val = 34 -> <<"ConditionsNotCorrect">>
      [] val = 36 -> <<"RequestSequenceError">>
      [] val = 37 -> <<"NoResponseFromSubnetComponent">>
      [] val = 38 -> <<"FailurePreventsExecutionOfRequestedAction">>
      [] val = 49 -> <<"RequestOutOfRange">>
      [] val = 51 -> <<"SecurityAccessDenied">>
      [] val = 53 -> <<"InvalidKey">>
      [] val = 54 -> <<"ExeedNumberOfAttempts">>
      [] val = 55 -> <<"RequiredTimeDelayNotExpired">>
      [] val = 112 -> <<"UploadDownloadNotAccepted">>
      [] val = 113 -> <<"TransferDataSuspended">>
      [] val = 114 -> <<"GeneralProgrammingFailure">>
      [] val = 115 -> <<"WrongBlockSequenceCounter">>
      [] val = 120 -> <<"RequestCorrectlyReceivedResponsePending">>
      [] val = 126 -> <<"SubFunctionNotSupportedInActiveSession">>
      [] val = 127 -> <<"ServiceNotSupportedInActiveSession">>
      [] OTHER -> <<"NonStandard", val>>

\* An error with a payload: NegativeResponse(code), InvalidServiceId(id), ...
ErrWith(e, v) == [ok |-> FALSE, val |-> v, err |-> e]

\* request, lines 40-48: the request datagram
RequestBytes(req) ==
    <<req.sid>>
        \o (IF IsSome(req.sub_function) THEN <<Unwrap(req.sub_function)>> ELSE <<>>)
        \o (IF IsSome(req.data) THEN Unwrap(req.data) ELSE <<>>)

\* request, lines 58-65: the response makes the loop continue (NeverPending:
\* a loop that returns on every response).
NeverPending(response) == FALSE
IsResponsePending(response) ==
    /\ Len(response) >= 3
    /\ response[1] = NEGATIVE_RESPONSE
    /\ NegativeResponseCode(response[3]) = <<"RequestCorrectlyReceivedResponsePending">>

\* request, line 72: sid | POSITIVE_RESPONSE (SameSid: without the marker)
SameSid(sid) == sid
PositiveSid(sid) == BitOr(sid, POSITIVE_RESPONSE)

\* request, lines 57-83: what the loop returns on a response that does not
\* make it continue.
RequestResult(req, response) ==
    IF response = <<>> THEN Panic
    ELSE IF response[1] = NEGATIVE_RESPONSE
    THEN IF Len(response) < 3 THEN Panic
         ELSE ErrWith("NegativeResponse", NegativeResponseCode(response[3]))
    ELSE IF response[1] # PositiveSid(req.sid)
    THEN ErrWith("InvalidServiceId", <<response[1]>>)
    ELSE IF IsSome(req.sub_function) /\ Len(response) < 2 THEN Panic
    ELSE IF IsSome(req.sub_function) /\ response[2] # Unwrap(req.sub_function)
    THEN ErrWith("InvalidSubFunction", <<response[2]>>)
    ELSE Ok(From(response, IF IsSome(req.sub_function) THEN 2 ELSE 1))

\* AsyncCanAdapter::recv_filter, line 129: resubscribe() runs when recv() is
\* called, not when the stream is first polled (SubscribedAtPoll: a stream
\* that subscribes lazily).
SubscribedAtPoll == FALSE
SubscribedAtCall == TRUE

\* request, lines 40-52: the request datagram, the receive stream, and the
\* call of IsoTPAdapter::send.
UdsRequestStart ==
    /\ upc = "idle"
    /\ upc' = "sending"
    /\ rxOpen' = SubscribedAtCall
    /\ rxStream' = <<>>
    /\ rxPub' = <<>>
    /\ rarmed' = TRUE
    /\ txData' = RequestBytes(ureq)
    /\ spc' = "idle"
    /\ UNCHANGED <<cfg, build, rxTaken, sres, sidx, sfc, sstmin, swait, fcStream, wire,
                   rbuf, rlen, ridx, rres, rpolls, peer, sinceFc, sleeps>>
    /\ UNCHANGED <<ureq, ures>>

\* request, lines 52-55: send returned; its error is the result (`?`),
\* otherwise the loop polls the stream for the first time.
UdsSendDone ==
    /\ upc = "sending"
    /\ spc = "done"
    /\ IF sres[1].ok
       THEN /\ upc' = "waiting"
            /\ rpolls' = 1
            /\ rxOpen' = TRUE
            /\ UNCHANGED ures
       ELSE /\ upc' = "done"
            /\ ures' = sres
            /\ UNCHANGED <<rpolls, rxOpen>>
    /\ UNCHANGED <<cfg, build, rxPub, rxTaken, txData, spc, sres, sidx, sfc, sstmin, swait,
                   fcStream, wire, rxStream, rbuf, rlen, ridx, rres, rarmed, peer, peerCfg,
                   sinceFc, sleeps>>
    /\ UNCHANGED ureq

\* request, lines 55-83: one iteration of the loop on the item the stream
\* yielded.
UdsResponse ==
    /\ upc = "waiting"
    /\ Len(rres) = rpolls
    /\ LET item == rres[rpolls]
       IN IF ~item.ok
          THEN /\ upc' = "done"
               /\ ures' = <<item>>
               /\ UNCHANGED rpolls
          ELSE IF IsResponsePending(item.val)
          THEN /\ rpolls' = rpolls + 1
               /\ UNCHANGED <<upc, ures>>
          ELSE /\ upc' = "done"
               /\ ures' = <<RequestResult(ureq, item.val)>>
               /\ UNCHANGED rpolls
    /\ UNCHANGED <<cfg, build, rxOpen, rxPub, rxTaken, txData, spc, sres, sidx, sfc, sstmin,
                   swait, fcStream, wire, rxStream, rbuf, rlen, ridx, rres, rarmed, peer,
                   peerCfg, sinceFc, sleeps>>
    /\ UNCHANGED ureq

\* diagnostic_session_control, lines 97-109: what it makes of the data that
\* request returned.  Durations are in milliseconds; u16::from_be_bytes of
\* two bytes is the first times 256 plus the second.
FromBeBytes(hi, lo) == hi * 256 + lo
SessionParameterRecord(result) ==
    IF Len(result) = 4
    THEN Some([p2_server_max |-> FromBeBytes(result[1], result[2]),
               p2_star_server_max |-> FromBeBytes(result[1], result[2]) * 10])
    ELSE None

\* diagnostic_session_control, lines 88-111: the request was made by
\* diagnostic_session_control and has returned; its error is the result (`?`),
\* otherwise the record.
UdsSessionControl ==
    /\ upc = "done"
    /\ ureq.sid = 16 /\ IsSome(ureq.sub_function) /\ ureq.data = None
    /\ upc' = "returned"
    /\ ures' = IF ures[1].ok THEN <<Ok(SessionParameterRecord(ures[1].val))>> ELSE ures
    /\ UNCHANGED <<cfg, build, rxOpen, rxPub, rxTaken, txData, spc, sres, sidx, sfc, sstmin,
                   swait, fcStream, wire, rxStream, rbuf, rlen, ridx, rres, rpolls, rarmed,
                   peer, peerCfg, sinceFc, sleeps>>
    /\ UNCHANGED ureq

(***************************************************************************)
(* The subscribers of the broadcast channel: AsyncCanAdapter::recv_filter  *)
(* (src/can/async_can.rs:127-144).                                         *)
(***************************************************************************)
\* Number of frames the broadcast channel retains, standing for
\* CAN_RX_BUFFER_SIZE = 1024 (async_can.rs:14), scaled down so that a
\* subscriber does fall behind.
RxCapacity == 1

NoSub == [pc |-> "none", from |-> 0, next |-> 0, idx |-> <<>>, seen |-> <<>>, lagged |-> FALSE]

\* The dispatcher thread has ended: rx_sender, one of its locals, is dropped.
SenderDropped == dpc \in {"dead", "exited"}

\* Receiver::recv() of a receiver that has read n of the len values sent: it
\* is behind by more than the capacity when the slot of value n + 1 has been
\* written again (RecvError::Lagged), and its cursor moves to the oldest value
\* the channel still retains.
Lags(n, len) == len - n > RxCapacity
RestartsAfterLag(n, len) == IF Lags(n, len) THEN 0 ELSE n
CursorAfterLag(n, len) == IF Lags(n, len) THEN len - RxCapacity ELSE n

\* let mut rx = self.recv_receiver.resubscribe();   (line 129)
Subscribe ==
    /\ sub.pc = "none"
    /\ ~SenderDropped
    /\ sub' = [NoSub EXCEPT !.pc = "open", !.from = Len(published), !.next = Len(published)]
    /\ UNCHANGED <<shut, dropst, afault, unsent, returned>>

\* One item of the stream (filter |_| true): rx.recv().await until it is Ok;
\* Err(Lagged) takes the `Err(_) => continue` arm and the next recv() returns
\* the oldest retained frame.
SubRecv ==
    /\ sub.pc = "open"
    /\ sub.next < Len(published)
    /\ LET n == CursorAfterLag(sub.next, Len(published)) IN
         sub' = [sub EXCEPT !.next = n + 1,
                            !.idx = Append(@, n + 1),
                            !.seen = Append(@, published[n + 1]),
                            !.lagged = @ \/ Lags(sub.next, Len(published))]
    /\ UNCHANGED <<shut, dropst, afault, unsent, returned>>

\* The stream is polled when the sender is gone and every retained frame has
\* been read: rx.recv() is Err(Closed) at once, `Err(_) => continue` polls it
\* again, and so on: the poll neither yields an item nor ends the stream.
SubSpin ==
    /\ sub.pc = "open"
    /\ sub.next = Len(published)
    /\ SenderDropped
    /\ sub' = [sub EXCEPT !.pc = "spin"]
    /\ UNCHANGED <<shut, dropst, afault, unsent, returned>>

(***************************************************************************)
(* The adapter's calls fail (trait CanAdapter returns Result).             *)
(***************************************************************************)
\* DispRecv, with the history of what adapter.recv() returned.
DispRecvOk ==
    /\ DispRecv
    /\ returned' = returned \o frames'
    /\ UNCHANGED <<shut, dropst, afault, unsent, sub>>

\* adapter.recv() is Err (SocketCan::recv: Err(Disconnected), socketcan/mod.rs
\* :112-115): unwrap() panics (line 30).
DispRecvError ==
    /\ dpc = "recv"
    /\ ~shut
    /\ afault = "none"
    /\ Panicked
    /\ afault' = "recv"
    /\ UNCHANGED <<txwait, hw, busLeft, env, fut, futFrame, published, issued, resolved, matched>>
    /\ UNCHANGED <<shut, dropst, unsent, returned, sub>>

\* adapter.send(&buffer) is Err (Panda::send: write_bulk(..)?, panda/mod.rs
\* :192-195): unwrap() panics (line 76).
DispSendError ==
    /\ dpc = "drain"
    /\ txchan = <<>>
    /\ buffer # <<>>
    /\ afault = "none"
    /\ Panicked
    /\ afault' = "send"
    /\ UNCHANGED <<txwait, hw, busLeft, env, fut, futFrame, published, issued, resolved, matched>>
    /\ UNCHANGED <<shut, dropst, unsent, returned, sub>>

\* adapter.send() transmits the first k frames only and returns Ok
\* (SocketCan::send: write_frame is Err, push_front, break; socketcan/mod.rs
\* :83-88): the rest stays in the buffer, which line 58 clears.
DispSendPartial ==
    /\ dpc = "drain"
    /\ txchan = <<>>
    /\ buffer # <<>>
    /\ \E k \in 0..(Len(buffer) - 1) :
         /\ hw' = AdapterSend(hw, SubSeq(buffer, 1, k))
         /\ buffer' = SubSeq(buffer, k + 1, Len(buffer))
         /\ unsent' = unsent \o SubSeq(buffer, k + 1, Len(buffer))
    /\ dpc' = "recv"
    /\ UNCHANGED <<frames, callbacks, txchan, txwait, busLeft, env, fut, futFrame,
                   published, issued, resolved, matched>>
    /\ UNCHANGED <<shut, dropst, afault, returned, sub>>

(***************************************************************************)
(* Drop for AsyncCanAdapter (lines 147-155) and the end of process().      *)
(***************************************************************************)
\* The loop condition finds the signal: process() returns, its locals drop.
DispExit ==
    /\ dpc = "recv"
    /\ shut
    /\ dpc' = "exited"
    /\ frames' = <<>>
    /\ buffer' = <<>>
    /\ callbacks' = [k \in Keys |-> <<>>]
    /\ txchan' = <<>>
    /\ UNCHANGED <<txwait, hw, busLeft, env, fut, futFrame, published, issued, resolved, matched>>
    /\ UNCHANGED fvars

\* drop() starts; every send future borrows the adapter, so none is alive.
\* self.shutdown.take().unwrap().send(()) is Err when the receiving half is
\* gone with the thread, and unwrap() panics.
DropCall ==
    /\ dropst = "alive"
    /\ \A s \in Sends : fut[s] \notin {"queuing", "waiting"}
    /\ IF dpc = "dead"
       THEN dropst' = "panicked" /\ UNCHANGED shut
       ELSE dropst' = "joining" /\ shut' = TRUE
    /\ UNCHANGED <<afault, unsent, returned, sub>>

\* handle.join().unwrap(): Ok when process() returned, Err (and a panic) when
\* the thread panicked.
DropJoin ==
    /\ dropst = "joining"
    /\ dpc \in {"dead", "exited"}
    /\ dropst' = IF dpc = "exited" THEN "dropped" ELSE "panicked"
    /\ UNCHANGED <<shut, afault, unsent, returned, sub>>

FaultIdle ==
    /\ shut = FALSE
    /\ dropst = "alive"
    /\ afault = "none"
    /\ unsent = <<>>
    /\ returned = <<>>
    /\ sub = NoSub

(***************************************************************************)
(* Frame::new and the SocketCan adapter (can/mod.rs, socketcan/mod.rs).    *)
(***************************************************************************)
\* Frame::new, lines 86-91: the identifier fits its kind (AnyId: no check).
AnyId(id) == TRUE
IdInRange(id) ==
    /\ id[1] = "Standard" => id[2] <= 2047
    /\ id[1] = "Extended" => id[2] <= 536870911

\* Frame::new (can/mod.rs lines 80-100).
FrameNew(bus, id, data) ==
    IF Len(data) \notin DlcLens THEN Err("MalformedFrame")
    ELSE IF ~IdInRange(id) THEN Err("MalformedFrame")
    ELSE Ok(MkFrame(bus, id, data, FALSE, Len(data) > 8))

\* A call of Frame::new with the arguments chosen for it.
FrameNewCall ==
    /\ made # None
    /\ Unwrap(made).ret = None
    /\ made' = Some([Unwrap(made) EXCEPT
                      !.ret = Some(FrameNew(Unwrap(made).bus, Unwrap(made).id,
                                            Unwrap(made).data))])
    /\ UNCHANGED <<to_send, iff_echo, loopback_queue, written, sockrx, received>>

\* No SocketCan adapter: its state in the other specifications.
SockIdle ==
    /\ made = None
    /\ to_send = <<>>
    /\ iff_echo = TRUE
    /\ loopback_queue = <<>>
    /\ written = <<>>
    /\ sockrx = <<>>
    /\ received = <<>>

\* get_test_frames (tests/adapter_tests.rs lines 13-45): the caller builds a
\* frame with Frame::new and, when that is Ok, appends it to what it sends.
SockNewFrame(bus, id, data) ==
    /\ made' = Some([bus |-> bus, id |-> id, data |-> data,
                      ret |-> Some(FrameNew(bus, id, data))])
    /\ to_send' = IF FrameNew(bus, id, data).ok
                  THEN Append(to_send, FrameNew(bus, id, data).val)
                  ELSE to_send
    /\ UNCHANGED <<iff_echo, loopback_queue, written, sockrx, received>>

\* frames.push_front(frame) (line 87); PutBackLast: push_back.
PutBackLast(queue, frame) == Append(queue, frame)
PutBack(queue, frame) == <<frame>> \o queue

\* The copy queued for a frame that was written (lines 89-93).
FakeLoopback(frame) == [frame EXCEPT !.loopback = TRUE]

\* SocketCan::send (lines 82-97) on the caller's queue: write_frame takes the
\* first k frames and fails on the next one, if there is one.
SockSend(k) ==
    /\ to_send # <<>>
    /\ k \in 0..Len(to_send)
    /\ written' = written \o SubSeq(to_send, 1, k)
    /\ to_send' = IF k = Len(to_send) THEN <<>>
                  ELSE PutBack(SubSeq(to_send, k + 2, Len(to_send)), to_send[k + 1])
    /\ loopback_queue' =
          IF iff_echo THEN loopback_queue
          ELSE loopback_queue \o [i \in 1..k |-> FakeLoopback(to_send[i])]
    /\ UNCHANGED <<made, iff_echo, sockrx, received>>

\* SocketCan::recv (lines 99-122): read_frame until WouldBlock, then the
\* queued copies.
SockRecvOk ==
    /\ received' = Append(received, Ok(sockrx \o loopback_queue))
    /\ sockrx' = <<>>
    /\ loopback_queue' = <<>>
    /\ UNCHANGED <<made, to_send, iff_echo, written>>

\* SocketCan::recv (lines 109-112): read_frame fails after j frames with
\* another error than WouldBlock; the frames read are lost with the Vec.
SockRecvError(j) ==
    /\ j \in 0..Len(sockrx)
    /\ received' = Append(received, Err("Disconnected"))
    /\ sockrx' = SubSeq(sockrx, j + 1, Len(sockrx))
    /\ UNCHANGED <<made, to_send, iff_echo, loopback_queue, written>>

\* A frame of another node reaches the socket.
SockArrive ==
    /\ sockrx' = Append(sockrx, BusFrame)
    /\ UNCHANGED <<made, to_send, iff_echo, loopback_queue, written, received>>

(***************************************************************************)
(* IsoTPConfig::tx (src/isotp/mod.rs:90-104).                              *)
(***************************************************************************)
DEFAULT_OFFSET == 8

\* id.to_be_bytes() of a u32 and u32::from_be_bytes
ToBeBytes(n) ==
    <<n \div 16777216, (n \div 65536) % 256, (n \div 256) % 256, n % 256>>
U32FromBeBytes(b) == b[1] * 16777216 + b[2] * 65536 + b[3] * 256 + b[4]

\* The receive identifier tx() derives (lines 94-101).  The sum is one of u32
\* and cannot overflow for the identifiers of the model.
DefaultRx(id) ==
    IF id[1] = "Standard" THEN Standard(id[2] + DEFAULT_OFFSET)
    ELSE LET bytes == ToBeBytes(id[2])
         IN Extended(U32FromBeBytes(<<bytes[1], bytes[2], bytes[4], bytes[3]>>))

\* config.tx(id)
ConfigTx(id) ==
    /\ cfg' = [cfg EXCEPT !.tx = id, !.rx = DefaultRx(id)]
    /\ UNCHANGED <<build, rxOpen, txData, spc, sres, sidx, sfc, sstmin, swait, fcStream, wire,
                   rxStream, rbuf, rlen, ridx, rres, rpolls, rarmed, peer, peerCfg, sinceFc,
                   sleeps, rxPub, rxTaken>>

(***************************************************************************)
(* The dispatcher specification.                                           *)
(***************************************************************************)
\* AsyncCanAdapter::new (lines 91-108): empty channels, the thread at its loop.
DispInit ==
    /\ dpc = "recv"
    /\ frames = <<>>
    /\ callbacks = [k \in Keys |-> <<>>]
    /\ buffer = <<>>
    /\ txchan = <<>>
    /\ txwait = <<>>
    /\ hw = [k \in Keys |-> <<>>]
    /\ busLeft = MaxBusFrames
    /\ fut = [s \in Sends |-> "idle"]
    /\ futFrame = [s \in Sends |-> SendFrame(s, Standard(291))]
    /\ published = <<>>
    /\ issued = <<>>
    /\ resolved = <<>>
    /\ matched = <<>>
    /\ FaultIdle

Init ==
    /\ DispInit
    /\ SockIdle
    /\ env \in {"fifo", "reorder"}
    /\ IsoIdle
    /\ UdsIdle

Next ==
    \/ DispRecv /\ UNCHANGED <<ivars, uvars, fvars, svars>>
    \/ ProcessFrame /\ UNCHANGED <<ivars, uvars, fvars, svars>>
    \/ RxDone /\ UNCHANGED <<ivars, uvars, fvars, svars>>
    \/ DrainOne /\ UNCHANGED <<ivars, uvars, fvars, svars>>
    \/ DispSend /\ UNCHANGED <<ivars, uvars, fvars, svars>>
    \/ SendCall /\ UNCHANGED <<ivars, uvars, fvars, svars>>
    \/ Enqueue /\ UNCHANGED <<ivars, uvars, fvars, svars>>
    \/ \E s \in Sends : DropSend(s) /\ UNCHANGED <<ivars, uvars, fvars, svars>>
    \/ \E s \in Sends : SendFail(s) /\ UNCHANGED <<ivars, uvars, fvars, svars>>

Spec == Init /\ [][Next]_vars

\* The dispatcher when no send future is dropped and the adapter is live and
\* not faulty: the thread keeps running, the channel serves its waiters, and
\* the adapter eventually returns the frames in flight.
LiveInit ==
    /\ DispInit
    /\ SockIdle
    /\ env = "fifo"
    /\ IsoIdle
    /\ UdsIdle

DispStep ==
    /\ DispRecv \/ ProcessFrame \/ RxDone \/ DrainOne \/ DispSend
    /\ UNCHANGED <<ivars, uvars, fvars, svars>>

NextNoDrop ==
    \/ DispStep
    \/ SendCall /\ UNCHANGED <<ivars, uvars, fvars, svars>>
    \/ Enqueue /\ UNCHANGED <<ivars, uvars, fvars, svars>>
    \/ \E s \in Sends : SendFail(s) /\ UNCHANGED <<ivars, uvars, fvars, svars>>

SpecLive ==
    /\ LiveInit
    /\ [][NextNoDrop]_vars
    /\ WF_vars(DispStep)
    /\ WF_vars(Enqueue /\ UNCHANGED <<ivars, uvars, fvars, svars>>)
    /\ SF_vars(DispRecv /\ frames' # <<>> /\ UNCHANGED <<ivars, uvars, fvars, svars>>)

IsoNext ==
    \/ IsoSendStart /\ UNCHANGED <<dvars, uvars, svars>>
    \/ IsoSendEchoed /\ UNCHANGED <<dvars, uvars, svars>>
    \/ IsoRecvFlowControl /\ UNCHANGED <<dvars, uvars, svars>>
    \/ IsoSendCF /\ UNCHANGED <<dvars, uvars, svars>>
    \/ IsoSendTimeout /\ UNCHANGED <<dvars, uvars, svars>>
    \/ IsoRecvFrame /\ UNCHANGED <<dvars, uvars, svars>>
    \/ IsoRecvTimeout /\ UNCHANGED <<dvars, uvars, svars>>
    \/ PeerReceive /\ UNCHANGED <<dvars, uvars, svars>>
    \/ PeerSendStart /\ UNCHANGED <<dvars, uvars, svars>>
    \/ PeerSendCF /\ UNCHANGED <<dvars, uvars, svars>>
    \/ PeerRaw /\ UNCHANGED <<dvars, uvars, svars>>
    \/ PeerPause /\ UNCHANGED <<dvars, uvars, svars>>

InitIso ==
    /\ DispInit
    /\ SockIdle
    /\ env = "fifo"
    /\ IsoInit
    /\ UdsIdle

SpecIso == InitIso /\ [][IsoNext]_vars

\* The transfers in which a timeout matters, when every task runs and every
\* timer fires: a peer that pauses or is not there or stops after a Wait, and
\* the echo of a Single Frame and of a segmented datagram.
IsoLiveInit ==
    \/ \E sc \in RawScripts :
          IsoRecvOnly(DefaultConfig,
                      [PeerDefault EXCEPT !.raw = sc.raw, !.good = sc.good,
                                          !.tag = "recover"], sc.polls)
    \/ IsoStart(DefaultConfig, MaxLen, [PeerDefault EXCEPT !.silent = TRUE])
    \/ \E at \in 1..2 :
          IsoStart(DefaultConfig, MaxLen,
                   [PeerDefault EXCEPT !.bs = 1, !.fc = Some(<<49>>), !.fcAt = at])
    \/ \E n \in {3, MaxLen}, bs \in 0..1 :
          IsoStart(DefaultConfig, n, [PeerDefault EXCEPT !.bs = bs])

InitIsoLive ==
    /\ DispInit
    /\ SockIdle
    /\ env = "fifo"
    /\ IsoLiveInit
    /\ UdsIdle

SpecIsoLive == InitIsoLive /\ [][IsoNext]_vars /\ WF_vars(IsoNext)

(***************************************************************************)
(* The UDS specification: one request; the ECU answers it with a number of *)
(* ResponsePending responses and a final response (tests/uds_tests.rs).    *)
(***************************************************************************)
MaxPending == 3

\* The requests: TesterPresent, ReadDataByIdentifier 0x1234,
\* DiagnosticSessionControl 2, WriteDataByIdentifier (more than one frame).
Requests ==
    {[sid |-> 62, sub_function |-> Some(0), data |-> None],
     [sid |-> 34, sub_function |-> None, data |-> Some(<<18, 52>>)],
     [sid |-> 16, sub_function |-> Some(2), data |-> None],
     [sid |-> 46, sub_function |-> None, data |-> Some(<<18, 52, 1, 2, 3, 4, 5, 6>>)]}

\* What the ECU may answer to req in the end: the positive response (short,
\* with a record of 2, 3, 4 and 5 bytes, and longer than a frame), a wrong
\* sub-function or first data byte, a wrong service, negative responses, and
\* responses that are too short.
FinalResponses(req) ==
    LET pos == <<req.sid + 64>>
        echo == IF IsSome(req.sub_function) THEN <<Unwrap(req.sub_function)>> ELSE <<18>>
    IN {pos \o echo,
        pos \o echo \o <<52, 255>>,
        pos \o echo \o <<0, 50, 1, 244>>,
        pos \o echo \o <<1, 44, 0, 200>>,
        pos \o echo \o <<0, 50, 1>>,
        pos \o echo \o <<0, 50, 1, 244, 0>>,
        pos \o echo \o <<52, 100, 101, 97, 100, 98, 101, 101, 102>>,
        pos \o <<echo[1] + 1, 7>>,
        pos,
        <<req.sid, echo[1]>>,
        <<NEGATIVE_RESPONSE, req.sid, 51>>,
        <<NEGATIVE_RESPONSE, req.sid, 128>>,
        <<NEGATIVE_RESPONSE, req.sid>>}

PendingResponse(req) == <<NEGATIVE_RESPONSE, req.sid, 120>>

\* The ECU's answers: k times ResponsePending, then the final response or
\* nothing more.
Scripts(req) ==
    {[i \in 1..k |-> PendingResponse(req)] \o f :
        k \in 0..MaxPending, f \in {<<r>> : r \in FinalResponses(req)} \cup {<<>>}}

InitUds ==
    /\ DispInit
    /\ SockIdle
    /\ env = "fifo"
    /\ IsoIdle
    /\ upc = "idle"
    /\ ures = <<>>
    /\ ureq \in Requests

\* The ECU is the peer with a script for the request; which one is not known
\* before the request is made.
UdsNext ==
    \/ \E sc \in Scripts(ureq), silent \in BOOLEAN :
          /\ silent => sc = <<>>
          /\ UdsRequestStart
          /\ peerCfg' = [PeerDefault EXCEPT !.echo = FALSE, !.script = sc, !.silent = silent]
          /\ UNCHANGED <<dvars, svars>>
    \/ UdsSendDone /\ UNCHANGED <<dvars, svars>>
    \/ UdsResponse /\ UNCHANGED <<dvars, svars>>
    \/ UdsSessionControl /\ UNCHANGED <<dvars, svars>>
    \/ IsoSendStart /\ upc = "sending" /\ UNCHANGED <<dvars, uvars, svars>>
    \/ IsoSendEchoed /\ UNCHANGED <<dvars, uvars, svars>>
    \/ IsoRecvFlowControl /\ UNCHANGED <<dvars, uvars, svars>>
    \/ IsoSendCF /\ UNCHANGED <<dvars, uvars, svars>>
    \/ IsoSendTimeout /\ UNCHANGED <<dvars, uvars, svars>>
    \/ IsoRecvFrame /\ UNCHANGED <<dvars, uvars, svars>>
    \/ IsoRecvTimeout /\ UNCHANGED <<dvars, uvars, svars>>
    \/ PeerReceive /\ UNCHANGED <<dvars, uvars, svars>>
    \/ PeerSendStart /\ UNCHANGED <<dvars, uvars, svars>>
    \/ PeerSendCF /\ UNCHANGED <<dvars, uvars, svars>>

SpecUds == InitUds /\ [][UdsNext]_vars

(***************************************************************************)
(* The UDS specification with an ECU that stays busy: every time the       *)
(* request loop has consumed a ResponsePending it sends the next one,      *)
(* within the timeout.  Every task runs and every timer fires.             *)
(***************************************************************************)
\* The ECU is still busy: it queues another ResponsePending once the loop of
\* request has consumed the last one (uds/mod.rs:63: continue).  The records
\* of the round that is over, the frames published and taken and the item
\* yielded, are dropped with it: no step reads them again.
PeerPendingAgain ==
    /\ peerCfg.tag = "pending"
    /\ upc = "waiting"
    /\ rres # <<>>
    /\ rpolls = Len(rres) + 1
    /\ rxStream = <<>>
    /\ peer.epc = "idle"
    /\ peer.equeue = <<>>
    /\ peer' = [peer EXCEPT !.equeue = <<PendingResponse(ureq)>>]
    /\ rres' = <<>>
    /\ rpolls' = 1
    /\ rxPub' = <<>>
    /\ rxTaken' = <<>>
    /\ UNCHANGED <<cfg, build, rxOpen, txData, spc, sres, sidx, sfc, sstmin, swait, fcStream,
                   wire, rxStream, rbuf, rlen, ridx, rarmed, peerCfg, sinceFc, sleeps>>
    /\ UNCHANGED <<ureq, upc, ures>>

PendNext ==
    \/ UdsNext
    \/ /\ UdsRequestStart
       /\ peerCfg' = [PeerDefault EXCEPT !.echo = FALSE,
                                         !.script = <<PendingResponse(ureq)>>,
                                         !.tag = "pending"]
       /\ UNCHANGED <<dvars, svars>>
    \/ PeerPendingAgain /\ UNCHANGED <<dvars, svars>>

SpecPend == InitUds /\ [][PendNext]_vars /\ WF_vars(PendNext)

(***************************************************************************)
(* The UDS specification with a second request on the same dispatcher:     *)
(* another client talks to another ECU on identifiers of their own, and    *)
(* the dispatcher publishes their frames between those of the first        *)
(* (src/lib.rs:21-36, examples/query_fw_versions.rs).                      *)
(***************************************************************************)
\* The identifiers of the other request: IsoTPConfig::new(0, 0x7a2)
OtherTx == Standard(1954)
OtherRx == Standard(1962)

\* Frames of the other request as the dispatcher publishes them: what its ECU
\* transmits (a Single Frame that would answer req, a First Frame, a
\* Consecutive Frame, a Flow Control), and the echoes of what the two clients
\* transmit.
OtherFrames(req) ==
    LET answer == <<req.sid + 64>>
                    \o (IF IsSome(req.sub_function) THEN req.sub_function ELSE <<18>>)
                    \o <<52>>
        ecu(bytes) == [PeerFrame(bytes) EXCEPT !.id = OtherRx]
    IN {ecu(PeerSingle(answer)),
        ecu(<<16, 12>> \o answer \o <<1, 2, 3>>),
        ecu(<<33, 1, 2, 3, 4, 5, 6, 7>>),
        ecu(<<48, 0, 0>>),
        [PeerFrame(PeerSingle(RequestBytes(req))) EXCEPT !.id = OtherTx, !.loopback = TRUE],
        [PeerFrame(PeerSingle(RequestBytes(req))) EXCEPT !.id = cfg.tx, !.loopback = TRUE]}

\* process(), line 54: the dispatcher publishes a frame of the other request.
OtherFrame ==
    /\ busLeft > 0
    /\ busLeft' = busLeft - 1
    /\ \E f \in OtherFrames(ureq) :
         /\ published' = Append(published, f)
         /\ Deliver(<<f>>)
    /\ UNCHANGED <<dpc, frames, callbacks, buffer, txchan, txwait, hw, env, fut, futFrame,
                   issued, resolved, matched, fvars>>
    /\ UNCHANGED <<cfg, build, rxOpen, rxTaken, txData, spc, sres, sidx, sfc, sstmin, swait,
                   wire, rbuf, rlen, ridx, rres, rpolls, rarmed, peer, peerCfg, sinceFc, sleeps>>
    /\ UNCHANGED <<uvars, svars>>

MuxNext ==
    \/ UdsNext
    \/ OtherFrame

SpecMux == InitUds /\ [][MuxNext]_vars

(***************************************************************************)
(* The ISO-TP specification on an adapter with more than one bus: the      *)
(* dispatcher publishes the frames of every bus in one broadcast channel   *)
(* (Frame.bus, src/can/mod.rs), and another bus carries a frame with the   *)
(* receive identifier of the transfer.                                     *)
(***************************************************************************)
\* Frames with the receive identifier on the bus next to the configured one:
\* a Flow Control, a Consecutive Frame, a Single Frame.
OtherBusFrames ==
    {[PeerRawFrame(bytes) EXCEPT !.bus = cfg.bus + 1] :
        bytes \in {<<48, 0, 0>>, <<33, 99, 99, 99, 99, 99, 99, 99>>, <<2, 62, 0>>}}

\* process(), line 54: the dispatcher publishes a frame of the other bus.
OtherBusFrame ==
    /\ busLeft > 0
    /\ busLeft' = busLeft - 1
    /\ \E f \in OtherBusFrames :
         /\ published' = Append(published, f)
         /\ Deliver(<<f>>)
    /\ UNCHANGED <<dpc, frames, callbacks, buffer, txchan, txwait, hw, env, fut, futFrame,
                   issued, resolved, matched, fvars>>
    /\ UNCHANGED <<cfg, build, rxOpen, rxTaken, txData, spc, sres, sidx, sfc, sstmin, swait,
                   wire, rbuf, rlen, ridx, rres, rpolls, rarmed, peer, peerCfg, sinceFc, sleeps>>
    /\ UNCHANGED <<uvars, svars>>

BusNext ==
    \/ IsoNext
    \/ OtherBusFrame

SpecBus == InitIsoLive /\ [][BusNext]_vars

(***************************************************************************)
(* The dispatcher with a faulty adapter, a subscriber and the drop.        *)
(***************************************************************************)
\* Number of send futures the tasks create here: no more than the transmit
\* channel holds, so that none waits for a slot.
FaultSends == 2

InitFault ==
    /\ DispInit
    /\ SockIdle
    /\ env = "fifo"
    /\ IsoIdle
    /\ UdsIdle

dcore == <<dpc, frames, callbacks, buffer, txchan, txwait, hw, busLeft, env,
           fut, futFrame, published, issued, resolved, matched>>

\* AsyncCanAdapter::send on an adapter that has not been dropped.
FaultSendCall ==
    /\ Len(issued) < FaultSends
    /\ dropst = "alive"
    /\ SendCall

FaultNext ==
    \/ DispRecvOk /\ UNCHANGED <<ivars, uvars, svars>>
    \/ ProcessFrame /\ UNCHANGED <<ivars, uvars, fvars, svars>>
    \/ RxDone /\ UNCHANGED <<ivars, uvars, fvars, svars>>
    \/ DrainOne /\ UNCHANGED <<ivars, uvars, fvars, svars>>
    \/ DispSend /\ UNCHANGED <<ivars, uvars, fvars, svars>>
    \/ DispRecvError /\ UNCHANGED <<ivars, uvars, svars>>
    \/ DispSendError /\ UNCHANGED <<ivars, uvars, svars>>
    \/ DispSendPartial /\ UNCHANGED <<ivars, uvars, svars>>
    \/ DispExit /\ UNCHANGED <<ivars, uvars, svars>>
    \/ FaultSendCall /\ UNCHANGED <<ivars, uvars, fvars, svars>>
    \/ \E s \in Sends : SendFail(s) /\ UNCHANGED <<ivars, uvars, fvars, svars>>
    \/ Subscribe /\ UNCHANGED <<dcore, ivars, uvars, svars>>
    \/ SubRecv /\ UNCHANGED <<dcore, ivars, uvars, svars>>
    \/ SubSpin /\ UNCHANGED <<dcore, ivars, uvars, svars>>
    \/ DropCall /\ UNCHANGED <<dcore, ivars, uvars, svars>>
    \/ DropJoin /\ UNCHANGED <<dcore, ivars, uvars, svars>>

SpecFault == InitFault /\ [][FaultNext]_vars

(***************************************************************************)
(* The SocketCan specification: a caller builds frames, hands them to      *)
(* send() until they are written, and calls recv() (bulk_send_sync).       *)
(***************************************************************************)
\* Frames the caller builds, calls of recv(), frames of other nodes waiting.
MaxSockFrames == 2
MaxSockRecv == 2
MaxSockBus == 1

\* The frames of get_test_frames: extended identifiers, one that would fit
\* a standard identifier, no data, 8 bytes, and a CAN-FD frame of 12.
TestFrames ==
    {[id |-> Extended(4660), len |-> 8], [id |-> Extended(291), len |-> 8],
     [id |-> Standard(0), len |-> 0], [id |-> Standard(291), len |-> 12]}

InitSock ==
    /\ DispInit
    /\ env = "fifo"
    /\ IsoIdle
    /\ UdsIdle
    /\ made = None
    /\ to_send = <<>>
    /\ iff_echo \in BOOLEAN
    /\ loopback_queue = <<>>
    /\ written = <<>>
    /\ sockrx = <<>>
    /\ received = <<>>

SockNext ==
    \/ \E t \in TestFrames :
          /\ Len(to_send) + Len(written) < MaxSockFrames
          /\ SockNewFrame(0, t.id, Repeat(DEFAULT_PADDING_BYTE, t.len))
          /\ UNCHANGED <<dvars, ivars, uvars>>
    \/ \E k \in 0..MaxSockFrames : SockSend(k) /\ UNCHANGED <<dvars, ivars, uvars>>
    \/ /\ Len(received) < MaxSockRecv
       /\ SockRecvOk
       /\ UNCHANGED <<dvars, ivars, uvars>>
    \/ \E j \in 0..MaxSockBus :
          /\ Len(received) < MaxSockRecv
          /\ SockRecvError(j)
          /\ UNCHANGED <<dvars, ivars, uvars>>
    \/ /\ Len(sockrx) < MaxSockBus
       /\ Len(received) < MaxSockRecv
       /\ SockArrive
       /\ UNCHANGED <<dvars, ivars, uvars>>

SpecSock == InitSock /\ [][SockNext]_vars

(***************************************************************************)
(* The Frame::new specification: one call with arguments from small sets.  *)
(***************************************************************************)
\* Largest number of data bytes handed to Frame::new.
MaxNewLen == 65

\* Identifiers at and past the ends of their ranges.
NewIds == {Standard(0), Standard(291), Standard(2047), Standard(2048),
           Extended(0), Extended(4660), Extended(536870911), Extended(536870912)}

InitNew ==
    /\ DispInit
    /\ env = "fifo"
    /\ IsoIdle
    /\ UdsIdle
    /\ \E bus \in 0..1, id \in NewIds, n \in 0..MaxNewLen :
          made = Some([bus |-> bus, id |-> id, data |-> Repeat(DEFAULT_PADDING_BYTE, n),
                       ret |-> None])
    /\ to_send = <<>>
    /\ iff_echo = TRUE
    /\ loopback_queue = <<>>
    /\ written = <<>>
    /\ sockrx = <<>>
    /\ received = <<>>

NewNext == FrameNewCall /\ UNCHANGED <<dvars, ivars, uvars>>

SpecNew == InitNew /\ [][NewNext]_vars

(***************************************************************************)
(* The configuration specification: a caller sets the transmit identifier  *)
(* of a configuration (examples/query_fw_versions.rs:48-51).               *)
(***************************************************************************)
\* Valid transmit identifiers: the lowest and highest Standard ones, the
\* Extended ones of the example (0x18DA00F1 + (i << 8)) and the extremes.
TxIds ==
    {Standard(n) : n \in (0..31) \cup (2016..2047)}
      \cup {Extended(416940273 + i * 256) : i \in 0..63}
      \cup {Extended(0), Extended(4660), Extended(65280), Extended(255),
            Extended(536870911), Extended(536805631)}

CfgNext == \E id \in TxIds : ConfigTx(id) /\ UNCHANGED <<dvars, uvars, svars>>

SpecCfg == LiveInit /\ [][CfgNext]_vars

(***************************************************************************)
(* Claims about the dispatcher.                                            *)
(***************************************************************************)
\* The position of x in the sequence q (0 when absent).
Pos(q, x) == IF \E i \in 1..Len(q) : q[i] = x
             THEN CHOOSE i \in 1..Len(q) : q[i] = x
             ELSE 0

SameKey(a, b) == KeyOf(futFrame[a]) = KeyOf(futFrame[b])

C2_ResolveInIssueOrder ==
    env = "fifo" =>
      /\ \A i, j \in 1..Len(resolved) :
           (i < j /\ SameKey(resolved[i], resolved[j]))
             => Pos(issued, resolved[i]) < Pos(issued, resolved[j])
      /\ \A i \in 1..Len(resolved) : \A a \in Sends :
           (/\ Pos(issued, a) # 0
            /\ Pos(issued, a) < Pos(issued, resolved[i])
            /\ SameKey(a, resolved[i]))
             => (fut[a] = "dropped" \/ (Pos(resolved, a) # 0 /\ Pos(resolved, a) < i))

\* C2 witness: every send was issued on one (bus, id) and all have resolved.
C2_Witness ==
    /\ env = "fifo"
    /\ Len(resolved) = NumSends
    /\ \A a, b \in Sends : SameKey(a, b)

\* C3 (as claimed): with an adapter that never fails and echoes in order, no
\* awaited send future ends in a failure instead of resolving.
C3_AwaitedSendNeverFails ==
    env = "fifo" => \A s \in Sends : fut[s] # "failed"

\* C3, when no send future is dropped (SpecLive): every send future that was
\* created resolves, also those that had to wait for a slot of the channel.
C3_LiveWithoutDrops ==
    \A s \in Sends : (fut[s] \in {"queuing", "waiting"}) ~> (fut[s] = "done")

\* C4 (as claimed): when the echo of a dropped send future arrives, the
\* dispatcher removes the stale entry, keeps running and broadcasts the echo.
C4_DroppedSendIsDrained ==
    \A i \in 1..Len(matched) :
      fut[matched[i].sid] = "dropped"
        => (dpc # "dead" /\ \E j \in 1..Len(published) : published[j] = matched[i].echo)

\* The entries of the registry, and two frames that differ in nothing but,
\* perhaps, the loopback flag.
Entries == UNION {{callbacks[k][i] : i \in 1..Len(callbacks[k])} : k \in Keys}
SameButLoopback(a, b) ==
    a.bus = b.bus /\ a.id = b.id /\ a.data = b.data /\ a.fd = b.fd

\* C25: frames with the same bus, identifier, data and fd flag are equal
\* whatever their loopback flags, by the equality of the dispatcher's
\* assertion: the frame a send submitted passes it against the expected
\* frame registered for it, and so does every echo matched.
C25_EqualityIgnoresLoopback ==
    /\ \A e \in Entries :
          SameButLoopback(e.frame, futFrame[e.sid]) =>
              CallbackMatches(e.frame, futFrame[e.sid])
    /\ \A i \in 1..Len(matched) :
          CallbackMatches(matched[i].echo, futFrame[matched[i].sid])

\* The equality of the assertion is that of every field: the expected frame
\* and the echo matched with it agree in loopback too (both have it set),
\* and neither passes against the frame as it was submitted.
C25_EqualityOfAllFields ==
    /\ \A e \in Entries :
          /\ SameButLoopback(e.frame, futFrame[e.sid])
          /\ e.frame.loopback
          /\ ~CallbackMatches(e.frame, futFrame[e.sid])
    /\ \A i \in 1..Len(matched) :
          /\ matched[i].echo.loopback
          /\ SameButLoopback(matched[i].echo, futFrame[matched[i].sid])
          /\ ~CallbackMatches(matched[i].echo, futFrame[matched[i].sid])

\* The send whose frame f is, the frames of a sequence on key k, and the
\* sends of the frames of a sequence.
SidOf(f) == f.data[1]
OnKey(fs, k) == SelectSeq(fs, LAMBDA f : KeyOf(f) = k)
SidsOf(fs) == [i \in 1..Len(fs) |-> SidOf(fs[i])]
\* The frames taken from the channel and not handed to the adapter yet, the
\* frames on key k the adapter has, and the echoes on key k that adapter.recv()
\* returned and the loop has not processed.
Drained == IF dpc = "drain" THEN buffer ELSE <<>>
WithAdapter(k) == hw[k] \o OnKey(Drained, k)
Echoed(k) == OnKey(SelectSeq(frames, LAMBDA f : f.loopback), k)
Range(q) == {q[i] : i \in 1..Len(q)}

\* C27: while the dispatch loop runs, the registry queue of each (bus, id)
\* has one entry for each frame taken from the channel whose echo has not
\* been processed and no other entry, in the order the frames were handed to
\* the adapter, and each expected frame is the frame submitted with loopback
\* set.
C27_RegistryInvariant ==
    dpc # "dead" =>
      \A k \in Keys :
        LET q == [i \in 1..Len(callbacks[k]) |-> callbacks[k][i].sid]
        IN /\ Range(q) = Range(SidsOf(Echoed(k))) \cup Range(SidsOf(WithAdapter(k)))
           /\ Len(q) = Len(Echoed(k)) + Len(WithAdapter(k))
           /\ \A i, j \in 1..Len(q) : i # j => q[i] # q[j]
           /\ SelectSeq(q, LAMBDA s : s \in Range(SidsOf(WithAdapter(k))))
                 = SidsOf(WithAdapter(k))
           /\ env = "fifo" => q = SidsOf(Echoed(k)) \o SidsOf(WithAdapter(k))
           /\ \A i \in 1..Len(q) :
                 /\ callbacks[k][i].frame.loopback
                 /\ SameButLoopback(callbacks[k][i].frame, futFrame[q[i]])

\* Two sends on one (bus, id) are registered while the echo of the first is
\* about to be processed, and a third was dropped before it got a slot.
C27_Witness ==
    /\ dpc = "rxloop"
    /\ \E k \in Keys :
          /\ Len(callbacks[k]) = 2
          /\ Len(Echoed(k)) = 1
          /\ Len(hw[k]) = 1

\* C33: with an adapter that echoes the frames handed to it, and no others,
\* in the order of hand-off on each (bus, id), the dispatcher thread never
\* takes a fatal path.
C33_FatalPathsUnreachable == env = "fifo" => dpc # "dead"

\* What does hold with such an adapter: the loopback frame the loop is about
\* to process finds an entry under its (bus, id), and the expected frame of
\* the entry it pops equals it; every frame the adapter holds has its entry.
C33_RegistryPathsUnreachable ==
    env = "fifo" =>
      /\ (dpc = "rxloop" /\ frames # <<>> /\ Head(frames).loopback) =>
            LET q == callbacks[KeyOf(Head(frames))]
            IN /\ q # <<>>
               /\ FrameEq(q[PopIndex(q)].frame, Head(frames))
      /\ dpc # "dead" => \A k \in Keys : Len(callbacks[k]) >= Len(hw[k])
\* The thread died on the echo of a send that was dropped.
C33_DiedOnDroppedSend ==
    /\ env = "fifo"
    /\ dpc = "dead"
    /\ matched # <<>>
    /\ fut[matched[Len(matched)].sid] = "dropped"

(***************************************************************************)
(* Claims about ISO-TP.                                                    *)
(***************************************************************************)
\* The peer of the round trip: it is there, sends no Wait frame and is not
\* faulty.
EchoPeer == ~peerCfg.silent /\ peerCfg.waits = 0 /\ peerCfg.fc = None /\ peerCfg.raw = <<>>
\* The lengths of the round trip: up to 4095 bytes in classic-CAN mode.
RoundTripLength == cfg.fd \/ Len(txData) <= 4095

\* send returned Ok, and the first item of the recv() stream, if there, is
\* Ok of the datagram sent.
RoundTripHolds ==
    /\ spc = "done" => sres = <<Ok(<<>>)>>
    /\ rres # <<>> => rres[1] = Ok(txData)

\* C5: with an echo peer, for every datagram of 0 bytes or more, send succeeds
\* and the next item of the recv() stream is Ok of the datagram, under every
\* padding, extended address, peer STmin and peer block size.
C5_RoundTrip == (EchoPeer /\ RoundTripLength) => RoundTripHolds

\* The same for datagrams of one byte or more.
C5_RoundTripNonEmpty == (EchoPeer /\ RoundTripLength /\ txData # <<>>) => RoundTripHolds
C5_NonEmptyDone == EchoPeer /\ Len(txData) > MaxLen /\ rres = <<Ok(txData)>>

\* C6: the sender never has more than BS Consecutive Frames on the bus since
\* the last Flow Control it received when that announced a block size BS
\* other than 0, and with BS = 0 it does not wait for another Flow Control.
C6_BlockSizeRespected ==
    /\ sfc.block_size # 0 => sinceFc <= sfc.block_size
    /\ spc = "wait_fc" => sfc.block_size # 0

\* C7: k Wait frames followed by ContinueToSend let the transfer proceed for
\* every k up to 10: the send fails with TooManyFCWait only when the peer sent
\* more than 10 Wait frames in a row.
C7_TenWaitsTolerated ==
    (~peerCfg.silent /\ peerCfg.waits <= MAX_WAIT_FC) => sres # <<Err("TooManyFCWait")>>

\* What the loop of receive_flow_control does tolerate: up to 9 Wait frames.
C7_NineWaitsTolerated ==
    (~peerCfg.silent /\ peerCfg.fc = None /\ peerCfg.waits < MAX_WAIT_FC)
        => /\ sres # <<Err("TooManyFCWait")>>
           /\ spc = "done" => sres = <<Ok(<<>>)>>
\* A Wait frame makes the sender transmit nothing.
C7_WaitSendsNothing ==
    [][(spc \in {"wait_fc0", "wait_fc"} /\ swait' = swait + 1) => wire' = wire]_vars

\* The error the send ends with when it reads the frame with bytes b (after
\* the address byte) while it awaits a Flow Control, case by case.
UndefinedStMin(b) == ~(b <= 127 \/ (b >= 241 /\ b <= 249))
ClaimedFlowControlError(b) ==
    IF b = <<>> \/ b[1] \div 16 # 3 THEN "FlowControl"
    ELSE IF b[1] % 16 = 2 THEN "Overflow"
    ELSE IF b[1] % 16 > 2 \/ Len(b) < 3 THEN "MalformedFrame"
    ELSE IF UndefinedStMin(b[3]) THEN "MalformedFrame"
    ELSE "none"
FaultyFrameRead == IsSome(peerCfg.fc) /\ peerCfg.tag = "" /\ spc = "done"

\* C17: a send that reads, while it awaits a Flow Control, a Flow Control with
\* status Overflow ends with Err(Overflow), one that reads a frame that is no
\* Flow Control ends with Err(FlowControl), one that reads a Flow Control
\* with an undefined status, fewer than 3 bytes or an undefined STmin ends
\* with Err(MalformedFrame).
C17_FlowControlErrors ==
    FaultyFrameRead => sres = <<Err(ClaimedFlowControlError(Unwrap(peerCfg.fc)))>>

\* The same for frames of one byte or more that are not a Flow Control with
\* status Wait.
C17_NonEmptyNoWait ==
    (FaultyFrameRead /\ Unwrap(peerCfg.fc) # <<>> /\ Unwrap(peerCfg.fc)[1] # 49)
        => sres = <<Err(ClaimedFlowControlError(Unwrap(peerCfg.fc)))>>
C17_Aborted ==
    /\ FaultyFrameRead
    /\ peerCfg.fcAt = 2
    /\ sres = <<Err("MalformedFrame")>>
    /\ Len(wire) > 1
\* After the send ended with an error no Consecutive Frame is transmitted.
C17_NoFrameAfterAbort ==
    [][(spc = "done" /\ ~sres[1].ok)
         => \A i \in (Len(wire) + 1)..Len(wire') :
               From(wire'[i].data, Offset)[1] \div 16 # 2]_vars

\* C19: in classic-CAN mode the send of a datagram of more than 4095 bytes
\* returns Err(DataTooLarge), and no frame of it is ever handed to the
\* dispatcher.
C19_DataTooLarge ==
    (~cfg.fd /\ Len(txData) > 4095)
        => /\ wire = <<>>
           /\ spc = "done" => sres = <<Err("DataTooLarge")>>
C19_Witness ==
    /\ ~cfg.fd
    /\ Len(txData) > 4095
    /\ sres = <<Err("DataTooLarge")>>
    /\ rres = <<Err("Timeout")>>

\* The errors of a datagram that C20 names.
CycleErrors == {Err("Timeout"), Err("OutOfOrder"), Err("MalformedFrame"), Err("UnknownFrameType")}
AllPulled == peerCfg.tag = "recover" /\ Len(rres) = rpolls

\* C20: between two datagrams the recv() stream holds no bytes, no expected
\* length and expects sequence number 1; the pulls that precede a
\* well-formed datagram yield the errors of what came before it, and the
\* pull that follows yields Ok of that datagram.
C20_FreshCycle ==
    /\ ~IsSome(rlen) => (rbuf = <<>> /\ ridx = 1)
    /\ AllPulled =>
         /\ rres[rpolls] = Ok(peerCfg.good)
         /\ \A i \in 1..(rpolls - 1) : rres[i] \in CycleErrors
C20_Witness ==
    /\ AllPulled
    /\ rpolls = 3
    /\ rres[1] = Err("Timeout")
    /\ rres[2] = Err("Timeout")
    /\ Len(rres[3].val) = 10

\* C18: a send that awaits a Flow Control, and a receive that awaits the next
\* frame of a datagram it has begun, end with Err(Timeout) when no frame
\* arrives on the receive identifier within the timeout, also when the
\* frame before the gap came after an earlier timeout of the same stream.
C18_TimeoutEnds ==
    /\ (spc \in {"wait_fc0", "wait_fc"} /\ fcStream = <<>> /\ PeerQuiet /\ ~RawLeft)
          ~> (spc = "done" /\ sres = <<Err("Timeout")>>)
    /\ \A n \in 0..(MaxPolls - 1) :
          (RecvPolling /\ IsSome(rlen) /\ rxStream = <<>> /\ PeerQuiet /\ Len(rres) = n)
            ~> (Len(rres) > n /\ rres[n + 1] = Err("Timeout"))
C18_Witness ==
    /\ Len(rres) >= 2
    /\ rres[1] = Err("Timeout")
    /\ rres[2] = Err("Timeout")
    /\ rxTaken # <<>>
    /\ rarmed = FALSE

\* The length the First Frame of the cycle declares, and the datagram bytes
\* it carries itself.
DeclaredLength == (rxTaken[1].data[1] % 16) * 256 + rxTaken[1].data[2]
FirstCarried == Len(rxTaken[1].data) - 2
LengthCycle == peerCfg.tag = "length" /\ rxTaken # <<>>

\* C21: a receive of several frames ends as soon as the bytes gathered reach
\* the length the First Frame declared (no reassembly goes on with that many
\* bytes or more in the buffer), and the datagram it yields is the first
\* DeclaredLength bytes carried: nothing beyond them is part of it.
C21_ExactLength ==
    LengthCycle =>
        /\ IsSome(rlen) => Len(rbuf) < Unwrap(rlen)
        /\ \A i \in 1..Len(rres) :
              rres[i].ok => /\ Len(rres[i].val) = DeclaredLength
                            /\ rres[i].val = peerCfg.good

\* The same for First Frames that declare more than they carry.
C21_ExactLengthWellFormed ==
    (LengthCycle /\ DeclaredLength > FirstCarried) =>
        /\ IsSome(rlen) => Len(rbuf) < Unwrap(rlen)
        /\ \A i \in 1..Len(rres) :
              rres[i].ok => /\ Len(rres[i].val) = DeclaredLength
                            /\ rres[i].val = peerCfg.good
                            /\ rxStream = <<>>
                            /\ ~RawLeft

\* A datagram of 10 bytes came out of a last frame that carried 7.
C21_Witness ==
    /\ LengthCycle
    /\ rres = <<Ok(Count(10))>>
    /\ Len(rxTaken) = 2
    /\ Len(rxTaken[2].data) = 8

\* The frame recv_from_stream takes next, without the address byte.
NextData == From(Head(rxStream).data, Offset)
TakesFrame(type) ==
    /\ RecvPolling
    /\ rxStream # <<>>
    /\ rxTaken' = Append(rxTaken, Head(rxStream))
    /\ NextData # <<>>
    /\ TypeNibble(NextData[1]) = type
EndsOutOfOrder == rres' = Append(rres, Err("OutOfOrder"))
OrderRules(full) ==
    /\ (TakesFrame(FT_First) /\ ~IsSome(rlen) /\ IsSome(rlen')) => ridx' = 1
    /\ (TakesFrame(FT_Consecutive) /\ IsSome(rlen) /\ rres' = rres) =>
            /\ NextData[1] % 16 = ridx
            /\ ridx' = (ridx + 1) % 16
    /\ (TakesFrame(FT_Consecutive) /\ IsSome(rlen) /\ NextData[1] % 16 # ridx
          /\ (full => Len(NextData) = MaxCanDataLength /\ Len(rbuf) <= Unwrap(rlen))) =>
            EndsOutOfOrder
    /\ (TakesFrame(FT_Consecutive) /\ ~IsSome(rlen)) => EndsOutOfOrder
    /\ (TakesFrame(FT_First) /\ IsSome(rlen)) => EndsOutOfOrder

\* C22: the sequence number expected after a First Frame is 1 and goes up by
\* one modulo 16 with every Consecutive Frame accepted; a Consecutive Frame
\* with another number, a Consecutive Frame with no First Frame before it and
\* a First Frame within a reassembly each end the cycle with Err(OutOfOrder).
C22_OutOfOrder == [][OrderRules(FALSE)]_vars

\* The same with the wrong number on frames of full length only, after First
\* Frames that did not carry more than they declared.
C22_OutOfOrderFullFrames == [][OrderRules(TRUE)]_vars

\* The frame numbered 0 after the one numbered 15 was accepted, and a cycle
\* ended with OutOfOrder at that place.
C22_Witness ==
    /\ peerCfg.tag = "order"
    /\ Len(rxTaken) = 17
    /\ \/ IsSome(rlen) /\ ridx = 1
       \/ rres = <<Err("OutOfOrder")>>

\* The Consecutive Frames the program has transmitted, the datagram bytes the
\* First Frame carries, and where the k-th Consecutive Frame starts in the
\* datagram.
SentCFs ==
    SelectSeq(wire, LAMBDA f : Len(f.data) > Offset
                               /\ TypeNibble(f.data[Offset + 1]) = FT_Consecutive)
FirstPart == MaxCanDataLength - (IF Len(txData) <= 4095 THEN 2 ELSE 6)
StartOf(k) == FirstPart + (k - 1) * (MaxCanDataLength - 1)

\* C28: the k-th Consecutive Frame of a datagram begins with 0x20 | (k mod
\* 16); every one but the last is full; together they carry the bytes of the
\* datagram behind those of the First Frame, in order, with none left out and
\* none twice.  (Stated of the newest Consecutive Frame: the frames sent are
\* only ever added to, so every one of them is the newest in some state.)
C28_ConsecutiveFrames ==
    \A k \in {Len(SentCFs)} \ {0} :
       LET d == From(SentCFs[k].data, Offset)
           n == Min(MaxCanDataLength - 1, Len(txData) - StartOf(k))
       IN /\ d[1] = 32 + (k % 16)
          /\ n > 0
          /\ Len(d) >= n + 1
          /\ SubSeq(d, 2, n + 1) = SubSeq(txData, StartOf(k) + 1, StartOf(k) + n)
          /\ StartOf(k) + n < Len(txData) => Len(d) = MaxCanDataLength

\* A send has returned Ok after 16 Consecutive Frames, the last of which
\* bears the sequence number 0.
C28_Witness ==
    /\ Len(SentCFs) = 16
    /\ sres = <<Ok(<<>>)>>
    /\ SentCFs[16].data[Offset + 1] = 32

\* The Flow Control the claim has the receiver transmit: 30 00 00 behind the
\* address byte, then nothing but padding, on the transmit identifier.
IsClaimedFlowControl(f) ==
    /\ f.id = cfg.tx
    /\ f.bus = cfg.bus
    /\ ~f.loopback
    /\ Len(f.data) >= Offset + 3
    /\ SubSeq(f.data, Offset + 1, Offset + 3) = <<48, 0, 0>>
    /\ IsSome(cfg.ext_address) => f.data[1] = Unwrap(cfg.ext_address)
    /\ \A i \in (Offset + 4)..Len(f.data) :
          IsSome(cfg.padding) /\ f.data[i] = Unwrap(cfg.padding)
    /\ IsSome(cfg.padding) => Len(f.data) >= CAN_MAX_DLEN
FirstFrameRules(whole) ==
    /\ (TakesFrame(FT_First) /\ ~IsSome(rlen) /\ Len(NextData) >= MaxCanDataLength) =>
            /\ Len(wire') = Len(wire) + 1
            /\ SubSeq(wire', 1, Len(wire)) = wire
            /\ IsClaimedFlowControl(wire'[Len(wire')])
            /\ rres' = rres
    /\ (TakesFrame(FT_First) /\ ~IsSome(rlen) /\ Len(NextData) < MaxCanDataLength
          /\ (whole => /\ Len(NextData) >= 2
                       /\ (NextData[1] % 16) * 256 + NextData[2] = 0 => Len(NextData) >= 6)) =>
            /\ rres' = Append(rres, Err("MalformedFrame"))
            /\ wire' = wire
    /\ (RecvPolling /\ rxTaken' # rxTaken
          /\ ~(TakesFrame(FT_First) /\ ~IsSome(rlen) /\ Len(NextData) >= MaxCanDataLength)) =>
            wire' = wire

\* C29: on a First Frame of full length the receiver transmits one Flow
\* Control, 30 00 00 and padding, on the transmit identifier, before it takes
\* another frame, and none on any other frame of the datagram; a First Frame
\* shorter than a full frame ends the cycle with Err(MalformedFrame) and no
\* Flow Control is transmitted.
C29_FlowControlOnFirstFrame == [][FirstFrameRules(FALSE)]_vars

\* The same, the short First Frames being those that hold their length
\* field.
C29_WholeLengthField == [][FirstFrameRules(TRUE)]_vars

\* C30: a Flow Control that the receive loop takes leaves the buffer, the
\* expected length and the expected sequence number as they are, nothing is
\* transmitted and the cycle does not end.
C30_FlowControlIgnored ==
    [][TakesFrame(FT_FlowControl) => UNCHANGED <<rbuf, rlen, ridx, rres, wire>>]_vars

\* A datagram of two frames came out of a cycle that took two Flow Controls
\* after the First Frame.
C30_Witness ==
    /\ peerCfg.tag = "ignore"
    /\ Len(rxTaken) = 4
    /\ TypeNibble(rxTaken[2].data[1]) = FT_FlowControl
    /\ TypeNibble(rxTaken[3].data[1]) = FT_FlowControl
    /\ rres = <<Ok(Count(10))>>

\* The largest datagram that goes into one frame as the claim has it: 7 bytes
\* on classic CAN, 6 with an address byte, and on CAN-FD the frame length less
\* the two bytes of the escape form (less the address byte, when it is
\* counted).
FrameLength == IF IsSome(cfg.max_dlen) THEN Unwrap(cfg.max_dlen) ELSE CAN_FD_MAX_DLEN
ShortFormMax == IF IsSome(cfg.ext_address) THEN 6 ELSE 7
ClaimedSingleMax(address) ==
    IF ~cfg.fd THEN ShortFormMax
    ELSE FrameLength - 2 - (IF address /\ IsSome(cfg.ext_address) THEN 1 ELSE 0)
\* The address byte, if any, and the first bytes of a Single Frame and of a
\* First Frame as the claim has them.
AddressBytes == IF IsSome(cfg.ext_address) THEN <<Unwrap(cfg.ext_address)>> ELSE <<>>
ClaimedSingle(data) ==
    IF Len(data) <= ShortFormMax THEN <<Len(data)>> \o data
    ELSE <<0, Len(data)>> \o data
ClaimedFirstHeader(data) ==
    IF Len(data) <= 4095 THEN <<16 + Len(data) \div 256, Len(data) % 256>>
    ELSE <<16, 0, 0, (Len(data) \div 65536) % 256, (Len(data) \div 256) % 256,
           Len(data) % 256>>
IsDataFrame(f) ==
    Len(f.data) > Offset /\ TypeNibble(f.data[Offset + 1]) # FT_FlowControl
SentDataFrames == SelectSeq(wire, IsDataFrame)
SendRules(address) ==
    LET single == Len(txData) <= ClaimedSingleMax(address)
        new == wire'[Len(wire')]
    IN /\ (spc = "idle" /\ spc' # "idle" /\ (cfg.fd \/ Len(txData) <= 4095)) =>
            /\ Len(wire') = Len(wire) + 1
            /\ new.id = cfg.tx
            /\ IF single
               THEN /\ IsPrefix(AddressBytes \o ClaimedSingle(txData), new.data)
                    /\ spc' = "sf_echo"
               ELSE /\ IsPrefix(AddressBytes \o ClaimedFirstHeader(txData), new.data)
                    /\ spc' = "wait_fc0"
       /\ (single /\ spc \notin {"idle", "nosend"}) =>
            /\ spc' \in {"sf_echo", "done"}
            /\ Len(SentDataFrames') = 1
       /\ Len(SentCFs') > Len(SentCFs) => spc = "send_cf"
       /\ (spc' = "send_cf" /\ spc # "send_cf") =>
            /\ spc \in {"wait_fc0", "wait_fc"}
            /\ fcStream # <<>>
            /\ From(Head(fcStream).data, Offset)[1] = 48

ContentLength(f, k) ==
    LET type == TypeNibble(f.data[Offset + 1])
    IN Offset +
       (IF type = FT_Single
        THEN Len(txData) + (IF Len(txData) <= ShortFormMax THEN 1 ELSE 2)
        ELSE IF type = FT_First THEN MaxCanDataLength
        ELSE IF type = FT_Consecutive
        THEN 1 + Min(MaxCanDataLength - 1, Len(txData) - StartOf(k))
        ELSE 3)
\* The smallest DLC length that holds n bytes.
NextDlcLength(n) == CHOOSE l \in DlcLens : l >= n /\ \A m \in DlcLens : m >= n => l <= m
ClaimedFrameLength(n) ==
    IF IsSome(cfg.padding) /\ n < 8 THEN 8
    ELSE IF n <= 8 THEN n
    ELSE NextDlcLength(n)
ClaimedPaddingByte == IF IsSome(cfg.padding) THEN Unwrap(cfg.padding) ELSE 170
PaddingRules(f, k) ==
    /\ Len(f.data) \in DlcLens
    /\ Len(f.data) = ClaimedFrameLength(ContentLength(f, k))
    /\ IsSome(cfg.padding) => Len(f.data) >= 8
    /\ \A i \in (ContentLength(f, k) + 1)..Len(f.data) : f.data[i] = ClaimedPaddingByte
    /\ IsSome(cfg.ext_address) => f.data[1] = Unwrap(cfg.ext_address)

\* C32: every frame the ISO-TP adapter hands to the dispatcher has a DLC
\* length; with a padding byte configured it has 8 bytes or more and the
\* bytes added are that byte; without, a frame of up to 8 bytes is as long as
\* its content and a longer one is filled up to the next DLC length with
\* 0xAA.
C32_FrameLengths ==
    [][\A i \in (Len(wire) + 1)..Len(wire') : PaddingRules(wire'[i], Len(SentCFs'))]_vars

\* Frames of 8 bytes filled with 0xCC and of 12 bytes filled with 0xAA have
\* been transmitted.
C32_PaddedTo8 ==
    /\ cfg.padding = Some(TEST_PADDING_BYTE)
    /\ IsSome(cfg.ext_address)
    /\ Len(txData) = 9
    /\ Len(wire) = 3
    /\ SubSeq(wire[2].data, 7, 8) = <<204, 204>>
    /\ SubSeq(wire[3].data, 5, 8) = <<204, 204, 204, 204>>
C32_Witness ==
    /\ cfg.padding = None
    /\ cfg.fd
    /\ Len(txData) = 9
    /\ sres = <<Ok(<<>>)>>
    /\ Len(wire[1].data) = 12
    /\ wire[1].data[12] = 170

\* The frame a peer transmits of a datagram of its own while the send awaits
\* a Flow Control: a Single, First or Consecutive Frame.
PeerDataFrame ==
    /\ IsSome(peerCfg.fc)
    /\ peerCfg.tag = ""
    /\ Unwrap(peerCfg.fc) # <<>>
    /\ TypeNibble(Unwrap(peerCfg.fc)[1]) \in {FT_Single, FT_First, FT_Consecutive}

\* C34: a send of several frames that reads a Single, First or Consecutive
\* Frame while it awaits a Flow Control skips it, and returns Ok once the
\* Flow Control has arrived.
C34_ConcurrentDatagramSkipped ==
    /\ (PeerDataFrame /\ spc = "done") => sres = <<Ok(<<>>)>>
    /\ (PeerDataFrame /\ spc \in {"wait_fc0", "wait_fc"}) => sres = <<>>

\* What the send does with such a frame: it ends with Err(FlowControl) and
\* transmits nothing more.
C34_DataFrameEndsSend ==
    [][(spc \in {"wait_fc0", "wait_fc"} /\ fcStream # <<>>
          /\ Len(Head(fcStream).data) > Offset
          /\ TypeNibble(Head(fcStream).data[Offset + 1]) # FT_FlowControl
          /\ Len(fcStream') < Len(fcStream))
        => (spc' = "done" /\ sres' = <<Err("FlowControl")>> /\ wire' = wire)]_vars
C34_SendEnded ==
    /\ PeerDataFrame
    /\ peerCfg.fcAt = 2
    /\ sres = <<Err("FlowControl")>>
    /\ Len(SentCFs) > 0

\* C35: whatever the frames on the receive identifier, every cycle of the
\* receive ends with Ok or an Err value, never with an index out of range,
\* and the bytes gathered never exceed the length declared (the remaining
\* length is never negative).
C35_ReceiveTotal ==
    /\ \A i \in 1..Len(rres) : rres[i] # Panic
    /\ IsSome(rlen) => Len(rbuf) <= Unwrap(rlen)

\* The frames that hold what their first bytes announce: one byte at least
\* behind the address byte, the second byte of a Single Frame in the escape
\* form, the length field of a First Frame.
HoldsLengthField(d) ==
    /\ d # <<>>
    /\ (TypeNibble(d[1]) = FT_Single /\ d[1] % 16 = 0) => Len(d) >= 2
    /\ TypeNibble(d[1]) = FT_First =>
          /\ Len(d) >= 2
          /\ (d[1] % 16) * 256 + d[2] = 0 => Len(d) >= 6
\* On such frames, and when the First Frame carried no more than it
\* declared, the step of the receive loop ends the cycle with Ok or an Err
\* value or goes on.
C35_TotalOnWholeFrames ==
    [][(RecvPolling /\ rxStream # <<>> /\ rxTaken' # rxTaken
          /\ Len(Head(rxStream).data) >= Offset /\ HoldsLengthField(NextData)
          /\ (IsSome(rlen) => Len(rbuf) <= Unwrap(rlen)))
        => (rres' = rres \/ (Len(rres') = Len(rres) + 1 /\ rres'[Len(rres')] # Panic))]_vars
C35_EmptyFramePanics ==
    /\ peerCfg.tag = "short"
    /\ IsSome(cfg.ext_address)
    /\ Len(rxTaken) = 1
    /\ Len(rxTaken[1].data) = 1
    /\ rres = <<Panic>>

\* The separation time, in microseconds, that an STmin byte stands for, and
\* the override of the configuration.
ClaimedMicros(b) == IF b <= 127 THEN b * 1000 ELSE (b - 240) * 100
Slept == Len(sleeps') = Len(sleeps) + 1
LastSleep == sleeps'[Len(sleeps')]

\* C37: the delay slept between two Consecutive Frames is the configured
\* separation_time_min when one is set, and else the STmin of the Flow
\* Control received last: after a later Flow Control with another STmin the
\* Consecutive Frames are spaced by the later value.
C37_LatestStMin ==
    [][Slept => LastSleep = (IF IsSome(cfg.separation_time_min)
                             THEN Unwrap(cfg.separation_time_min)
                             ELSE sfc.separation_time_min)]_vars

\* What the delay is without an override: the STmin of the first Flow
\* Control of the transfer, whatever the later ones announce.
C37_FirstStMin ==
    [][(Slept /\ (peerCfg.fc = None \/ peerCfg.fcAt # 1)) =>
          LastSleep = (IF IsSome(cfg.separation_time_min)
                       THEN Unwrap(cfg.separation_time_min)
                       ELSE ClaimedMicros(peerCfg.stmin))]_vars
\* After a first Flow Control with STmin 0 and a second with 5 ms the send
\* has slept twice, 0 each time.
C37_SleptOldStMin ==
    /\ peerCfg.tag = "stmin"
    /\ cfg.separation_time_min = None
    /\ peerCfg.stmin = 0
    /\ sfc.separation_time_min = 5000
    /\ sleeps = <<0, 0>>
    /\ sres = <<Ok(<<>>)>>

\* C38: the adapter takes frames of the configured bus only: no frame of
\* another bus is in its receive stream, in the stream of its Flow Control
\* wait, or among the frames its reassembly has taken.
C38_OnlyOwnBus ==
    /\ \A i \in 1..Len(rxStream) : rxStream[i].bus = cfg.bus
    /\ \A i \in 1..Len(fcStream) : fcStream[i].bus = cfg.bus
    /\ \A i \in 1..Len(rxTaken) : rxTaken[i].bus = cfg.bus

\* What the streams do keep out: other identifiers and loopback frames.
C38_OwnIdentifier ==
    /\ \A i \in 1..Len(rxStream) : rxStream[i].id = cfg.rx /\ ~rxStream[i].loopback
    /\ \A i \in 1..Len(fcStream) : fcStream[i].id = cfg.rx /\ ~fcStream[i].loopback
\* The send went on to its Consecutive Frames on a Flow Control of the other
\* bus, before the peer had transmitted any.
C38_ForeignFlowControlTaken ==
    /\ published # <<>>
    /\ published[1].bus # cfg.bus
    /\ Len(SentCFs) > 0
    /\ peer.fcs = 0

(***************************************************************************)
(* Claims about the UDS client.                                            *)
(***************************************************************************)
\* A response 0x7F .. 0x78
PendingNrc(r) == Len(r) >= 3 /\ r[1] = 127 /\ r[3] = 120
\* The ECU's answers that are not such a response, in order
FinalAnswers == SelectSeq(peerCfg.script, LAMBDA r : ~PendingNrc(r))
\* How many datagrams the client has started to transmit: the Single and
\* First Frames on its transmit identifier.
RequestsOnWire ==
    Cardinality({i \in 1..Len(wire) :
                    /\ wire[i].id = cfg.tx
                    /\ wire[i].data[1] \div 16 \in {0, 1}})
\* The request returned after a successful send to an ECU that is there.
Answered == upc = "done" /\ sres = <<Ok(<<>>)>> /\ ~peerCfg.silent

\* C8: the request datagram is transmitted exactly once, however many
\* ResponsePending responses come; the call consumes these and one more
\* datagram, and its result is that of the first response that is not
\* ResponsePending (Timeout if there is none).
C8_SentOnceResultOfFirstFinal ==
    /\ RequestsOnWire <= 1
    /\ upc \in {"waiting", "done"} => RequestsOnWire = 1
    /\ (Answered /\ FinalAnswers # <<>>)
          => /\ ures = <<RequestResult(ureq, FinalAnswers[1])>>
             /\ Len(rres) = Len(peerCfg.script)
    /\ (Answered /\ FinalAnswers = <<>>) => ures = <<Err("Timeout")>>
C8_Witness ==
    /\ Answered
    /\ Len(peerCfg.script) = MaxPending + 1
    /\ FinalAnswers # <<>>
    /\ ures[1].ok

\* The response r has the bytes C9 refers to.
HasClaimedBytes(req, r) ==
    /\ Len(r) >= 1
    /\ r[1] = 127 => Len(r) >= 3
    /\ IsSome(req.sub_function) => Len(r) >= 2
\* sid | 0x40 for the service ids of the requests
ClaimedSid(sid) == IF (sid \div 64) % 2 = 0 THEN sid + 64 ELSE sid
\* The result C9 states for the response r
ClaimedResult(req, r) ==
    IF r[1] = 127 THEN ErrWith("NegativeResponse", NegativeResponseCode(r[3]))
    ELSE IF r[1] # ClaimedSid(req.sid) THEN ErrWith("InvalidServiceId", <<r[1]>>)
    ELSE IF IsSome(req.sub_function) /\ r[2] # req.sub_function[1]
    THEN ErrWith("InvalidSubFunction", <<r[2]>>)
    ELSE Ok(SubSeq(r, IF IsSome(req.sub_function) THEN 3 ELSE 2, Len(r)))

\* C9: for the first response r that is not ResponsePending the request
\* returns NegativeResponse(code of r[2]) if r[0] = 0x7F, else
\* InvalidServiceId(r[0]) if r[0] is not sid | 0x40, else
\* InvalidSubFunction(r[1]) if a sub-function was sent and r[1] differs, else
\* Ok of the bytes after the service id and the sub-function echo; e.g.
\* DiagnosticSessionControl answered by 7F 10 33 yields
\* NegativeResponse(SecurityAccessDenied).
C9_ResultOfResponse ==
    (Answered /\ FinalAnswers # <<>> /\ HasClaimedBytes(ureq, FinalAnswers[1]))
        => /\ ures = <<ClaimedResult(ureq, FinalAnswers[1])>>
           /\ (ureq.sid = 16 /\ FinalAnswers[1] = <<127, 16, 51>>)
                 => ures = <<ErrWith("NegativeResponse", <<"SecurityAccessDenied">>)>>
C9_Witness ==
    /\ Answered
    /\ ureq.sid = 16
    /\ FinalAnswers = <<(<<127, 16, 51>>)>>
    /\ ures = <<ErrWith("NegativeResponse", <<"SecurityAccessDenied">>)>>

\* C10: from the moment request() has created its receive stream, every frame
\* for it that the dispatcher publishes reaches its reassembly: the frames
\* taken and those waiting in the stream are the frames published, also those
\* published before send returned and before the first poll; so the call
\* never times out on an ECU that answers.
C10_NoFrameMissed ==
    upc # "idle"
        => /\ rxTaken \o rxStream = rxPub
           /\ (Answered /\ FinalAnswers # <<>>) => ures # <<Err("Timeout")>>
C10_Witness ==
    /\ upc = "sending"
    /\ spc = "sf_echo"
    /\ rxStream # <<>>
    /\ rxTaken = <<>>

RecordBytes == From(rres[rpolls].val, 2)
ClaimedRecord(b) ==
    IF Len(b) = 4
    THEN Some([p2_server_max |-> b[1] * 256 + b[2],
               p2_star_server_max |-> (b[3] * 256 + b[4]) * 10])
    ELSE None
SessionReturned == upc = "returned" /\ ures[1].ok

\* C23: a positive response to DiagnosticSessionControl with a record of 4
\* bytes b0 b1 b2 b3 gives P2 = b0 * 256 + b1 ms and P2* = (b2 * 256 + b3) * 10
\* ms; with a record of another length it gives no record.
C23_SessionRecord ==
    SessionReturned => ures[1].val = ClaimedRecord(RecordBytes)

\* The same for P2 and for the records of another length only.
C23_P2AndLength ==
    SessionReturned =>
        /\ IsSome(ures[1].val) <=> Len(RecordBytes) = 4
        /\ IsSome(ures[1].val) =>
              Unwrap(ures[1].val).p2_server_max = RecordBytes[1] * 256 + RecordBytes[2]

\* A record of 4 bytes was read.
C23_Witness == SessionReturned /\ RecordBytes = <<0, 50, 1, 244>>

\* C36: whatever the length of the response, request returns Ok or an Err
\* value: it never ends on an index out of range.
C36_RequestTotal == upc \in {"done", "returned"} => ures[1] # Panic

\* The same for the responses that have the bytes the checks read: three for
\* a negative response, two when a sub-function was sent.
C36_TotalOnWholeResponses ==
    (Answered /\ FinalAnswers # <<>> /\ HasClaimedBytes(ureq, FinalAnswers[1]))
        => ures[1] # Panic
\* A negative response of two bytes, after a ResponsePending, ended the call.
C36_ShortNegativePanics ==
    /\ Answered
    /\ Len(peerCfg.script) = 2
    /\ Len(FinalAnswers) = 1
    /\ Len(FinalAnswers[1]) = 2
    /\ FinalAnswers[1][1] = 127
    /\ ures = <<Panic>>

\* The call has returned, to its caller or to diagnostic_session_control.
RequestReturned == upc \in {"done", "returned"}

\* C40: every call of request returns in the end, whatever the ECU does, also
\* when it sends ResponsePending (NRC 0x78) without end, each within the
\* timeout.
C40_RequestReturns == (upc = "sending") ~> RequestReturned

\* The same for an ECU that is silent, which ends the call with the Timeout
\* error, and for one whose series of ResponsePending ends.
C40_SilentTimesOut ==
    (upc = "sending" /\ peerCfg.silent) ~> (RequestReturned /\ ures = <<Err("Timeout")>>)
C40_FiniteSeriesReturns ==
    (upc = "sending" /\ peerCfg.tag # "pending") ~> RequestReturned
\* The loop waits for the next response of an ECU that stays busy, after it
\* has consumed one ResponsePending more than the finite series have.
C40_StillPending ==
    /\ peerCfg.tag = "pending"
    /\ upc = "waiting"
    /\ ures = <<>>
    /\ rres = <<Ok(PendingResponse(ureq))>>
    /\ rpolls = 2
    /\ peer.equeue = <<>>
    /\ Len(rxTaken) = 1

(***************************************************************************)
(* Claims about the broadcast channel, the adapter's faults and the drop.  *)
(***************************************************************************)
InFlight(f) ==
    \/ \E i \in 1..Len(hw[KeyOf(f)]) : hw[KeyOf(f)][i] = f
    \/ \E i \in 1..Len(frames) : frames[i] = [f EXCEPT !.loopback = TRUE]
    \/ \E i \in 1..Len(published) : published[i] = [f EXCEPT !.loopback = TRUE]

C13_RecvErrorSurfaces ==
    afault = "recv" => sub.pc # "spin"

\* C14: after adapter.send() returned an error the dispatch loop is still
\* running and the registry still holds the entry of every send future that
\* waits for its echo.
C14_SendErrorKeepsRunning ==
    afault = "send" =>
      /\ dpc # "dead"
      /\ \A s \in Sends :
           (fut[s] = "waiting" /\ \A i \in 1..Len(txchan) : txchan[i].sid # s)
             => \E k \in Keys : \E i \in 1..Len(callbacks[k]) : callbacks[k][i].sid = s

\* C15: while the dispatch loop runs, a frame adapter.send() left untransmitted
\* is still queued for the next adapter.send(), or has been transmitted since.
C15_UnsentRetried ==
    dpc \notin {"dead", "exited"} =>
    \A i \in 1..Len(unsent) :
       \/ \E j \in 1..Len(buffer) : buffer[j] = unsent[i]
       \/ InFlight(unsent[i])

\* C16: drop never fails, whatever state the dispatcher is in when the
\* adapter is dropped.
C16_DropJoinsCleanly ==
    dropst # "panicked"

(***************************************************************************)
(* Claims on Frame::new and on the SocketCan adapter.                      *)
(***************************************************************************)
\* What the claim says of Frame::new.
ClaimedLengths == (0..8) \cup {12, 16, 20, 24, 32, 48, 64}
ClaimedIdOk(id) ==
    \/ id[1] = "Standard" /\ id[2] <= 2047
    \/ id[1] = "Extended" /\ id[2] <= 536870911
ClaimedNew(bus, id, d) ==
    IF Len(d) \in ClaimedLengths /\ ClaimedIdOk(id)
    THEN Ok([bus |-> bus, id |-> id, data |-> d, loopback |-> FALSE, fd |-> Len(d) > 8])
    ELSE Err("MalformedFrame")

\* C24: Frame::new(bus, id, d) is Err(MalformedFrame) exactly when the length
\* of d is not a DLC length or the identifier is past its range, and
\* otherwise the frame of d, bus and id with loopback false and fd set for
\* more than 8 bytes.
C24_FrameNew ==
    (made # None /\ Unwrap(made).ret # None) =>
        LET call == Unwrap(made)
        IN Unwrap(call.ret) = ClaimedNew(call.bus, call.id, call.data)

\* Frame::new refused 2048 as a standard identifier with 8 bytes of data.
C24_Witness ==
    /\ made # None
    /\ Unwrap(made).ret # None
    /\ Unwrap(made).id = Standard(2048)
    /\ Len(Unwrap(made).data) = 8
    /\ ~Unwrap(Unwrap(made).ret).ok

\* The frames with loopback set that recv() has returned so far, in order,
\* and a sequence of frames with the flag set on each.
RECURSIVE LoopbacksOf(_)
LoopbacksOf(rets) ==
    IF rets = <<>> THEN <<>>
    ELSE LET r == Head(rets)
         IN (IF r.ok THEN SelectSeq(r.val, LAMBDA f : f.loopback) ELSE <<>>)
            \o LoopbacksOf(Tail(rets))
Marked(fs) == [i \in 1..Len(fs) |-> [fs[i] EXCEPT !.loopback = TRUE]]
LastOf(q) == q[Len(q)]
RecvStep == Len(received') = Len(received) + 1

C39_DerivedRxValid ==
    /\ cfg.rx[1] = cfg.tx[1]
    /\ cfg.rx[2] >= 0
    /\ cfg.rx[2] <= (IF cfg.tx[1] = "Standard" THEN 2047 ELSE 536870911)

\* The same for Extended identifiers, and for the Standard ones up to 0x7F7;
\* the two low bytes of an Extended identifier change places.
C39_ValidBelowOffset ==
    /\ cfg.rx[1] = cfg.tx[1]
    /\ (cfg.tx[1] = "Extended" \/ cfg.tx[2] <= 2047 - 8) =>
          cfg.rx[2] <= (IF cfg.tx[1] = "Standard" THEN 2047 ELSE 536870911)
    /\ cfg.tx[1] = "Standard" => cfg.rx[2] = cfg.tx[2] + 8
    /\ cfg.tx[1] = "Extended" =>
          /\ cfg.rx[2] \div 65536 = cfg.tx[2] \div 65536
          /\ cfg.rx[2] % 256 = (cfg.tx[2] \div 256) % 256
          /\ (cfg.rx[2] \div 256) % 256 = cfg.tx[2] % 256
C39_RxOutOfRange == cfg.tx = Standard(2047) /\ cfg.rx = Standard(2055)
C39_BytesSwapped == cfg.tx = Extended(416944625) /\ cfg.rx = Extended(417001745)

====
